---------------------------- MODULE Spec2Model ----------------------------
(***************************************************************************)
(* Model of the tutoring data validator (accelerate-usa/tutor-data-        *)
(* standard): the header conformance check, the row validation engine and  *)
(* the rendering of its result, for the two copies of the validation logic *)
(* the repository holds:                                                   *)
(*   "legacy"   src/validator/data_validator.html  (strict policy)         *)
(*   "refactor" src/validator/refactor/schoolValidator.js and              *)
(*              validateProviderData (src/validator/merge.html:85-164)     *)
(*                                                                         *)
(* JavaScript values are records [t, s]: t is the typeof-like tag and s    *)
(* the characters String(value) yields, one character per element.         *)
(* A header string is a record [lead, text, trail]: its text without the   *)
(* surrounding whitespace, and the number of whitespace characters before  *)
(* and after it.                                                           *)
(***************************************************************************)
EXTENDS Integers, Sequences, FiniteSets, TLC

(***************************************************************************)
(* JavaScript values and strings                                           *)
(***************************************************************************)

Str(chars) == [t |-> "string", s |-> chars]
Num(chars) == [t |-> "number", s |-> chars]
Bool(chars) == [t |-> "boolean", s |-> chars]
Null == [t |-> "null", s |-> <<"n", "u", "l", "l">>]
Undefined == [t |-> "undefined", s |-> <<"u", "n", "d", "e", "f", "i", "n", "e", "d">>]

\* String(value): the characters a regular expression test, parseInt and
\* parseFloat see.
JsString(v) == v.s

DigitChars == <<"0", "1", "2", "3", "4", "5", "6", "7", "8", "9">>
Digits == {DigitChars[i] : i \in 1..10}
DigitValue(c) == (CHOOSE i \in 1..10 : DigitChars[i] = c) - 1

WhiteSpace == {" ", "\t", "\r", "\n"}

UpperCase == <<"A", "B", "C", "D", "E", "F", "G", "H", "I", "J", "K", "L", "M",
               "N", "O", "P", "Q", "R", "S", "T", "U", "V", "W", "X", "Y", "Z">>
LowerCase == <<"a", "b", "c", "d", "e", "f", "g", "h", "i", "j", "k", "l", "m",
               "n", "o", "p", "q", "r", "s", "t", "u", "v", "w", "x", "y", "z">>

ToLowerChar(c) ==
    IF \E i \in 1..26 : UpperCase[i] = c
    THEN LowerCase[CHOOSE i \in 1..26 : UpperCase[i] = c]
    ELSE c

\* String.prototype.toLowerCase
ToLowerCase(chars) == [i \in 1..Len(chars) |-> ToLowerChar(chars[i])]

\* String.prototype.trim on the characters of a cell
TrimChars(chars) ==
    LET keep == {i \in 1..Len(chars) : chars[i] \notin WhiteSpace}
    IN  IF keep = {} THEN <<>>
        ELSE SubSeq(chars,
                    CHOOSE i \in keep : \A j \in keep : i <= j,
                    CHOOSE i \in keep : \A j \in keep : j <= i)

\* The characters after the leading whitespace (parseInt and parseFloat skip it).
SkipWhiteSpace(chars) ==
    LET keep == {i \in 1..Len(chars) : chars[i] \notin WhiteSpace}
    IN  IF keep = {} THEN <<>>
        ELSE SubSeq(chars, CHOOSE i \in keep : \A j \in keep : i <= j, Len(chars))

\* The longest prefix of chars made of digits.
DigitPrefix(chars) ==
    LET stop == {i \in 1..Len(chars) : chars[i] \notin Digits}
    IN  IF stop = {} THEN chars
        ELSE SubSeq(chars, 1, (CHOOSE i \in stop : \A j \in stop : i <= j) - 1)

\* /^\d{n}$/.test(value)
MatchesDigits(v, n) ==
    LET chars == JsString(v)
    IN  Len(chars) = n /\ \A i \in 1..Len(chars) : chars[i] \in Digits

\* /^\d+$/.test(value)
MatchesOneOrMoreDigits(v) ==
    LET chars == JsString(v)
    IN  Len(chars) >= 1 /\ \A i \in 1..Len(chars) : chars[i] \in Digits

\* The value of a run of digits. A run of more than MaxIntDigits significant
\* digits is read as BigInt, which is above every limit the validators
\* compare with.
MaxIntDigits == 6
BigInt == 10 ^ MaxIntDigits
RECURSIVE DigitsValue(_)
DigitsValue(ds) ==
    IF ds = <<>> THEN 0
    ELSE IF Len(ds) > MaxIntDigits /\ Head(ds) = "0" THEN DigitsValue(Tail(ds))
    ELSE IF Len(ds) > MaxIntDigits THEN BigInt
    ELSE DigitsValue(SubSeq(ds, 1, Len(ds) - 1)) * 10 + DigitValue(ds[Len(ds)])

\* parseInt(value, 10): [nan, n]
ParseInt(v) ==
    LET chars == SkipWhiteSpace(JsString(v))
        signed == chars # <<>> /\ Head(chars) \in {"+", "-"}
        body == IF signed THEN Tail(chars) ELSE chars
        ds == DigitPrefix(body)
    IN  IF ds = <<>> THEN [nan |-> TRUE, n |-> 0]
        ELSE [nan |-> FALSE,
              n |-> IF signed /\ Head(chars) = "-" THEN 0 - DigitsValue(ds) ELSE DigitsValue(ds)]

\* parseFloat(value): [nan, positive]. The value itself is not kept: the
\* validator only compares it with 0, which the sign and the mantissa digits
\* decide (an exponent never changes either).
ParseFloat(v) ==
    LET chars == SkipWhiteSpace(JsString(v))
        signed == chars # <<>> /\ Head(chars) \in {"+", "-"}
        neg == signed /\ Head(chars) = "-"
        body == IF signed THEN Tail(chars) ELSE chars
        infinity == <<"I", "n", "f", "i", "n", "i", "t", "y">>
        isInf == Len(body) >= 8 /\ SubSeq(body, 1, 8) = infinity
        int == DigitPrefix(body)
        rest == SubSeq(body, Len(int) + 1, Len(body))
        frac == IF rest # <<>> /\ Head(rest) = "." THEN DigitPrefix(Tail(rest)) ELSE <<>>
        mantissa == int \o frac
    IN  IF isInf THEN [nan |-> FALSE, positive |-> ~neg]
        ELSE IF mantissa = <<>> THEN [nan |-> TRUE, positive |-> FALSE]
        ELSE [nan |-> FALSE,
              positive |-> ~neg /\ \E i \in 1..Len(mantissa) : mantissa[i] # "0"]

(***************************************************************************)
(* Dates: new Date(year, monthIndex, day) and its getters                  *)
(***************************************************************************)

IsLeapYear(y) == (y % 4 = 0 /\ y % 100 # 0) \/ y % 400 = 0

\* Days of the month with 0-based index m of year y.
DaysInMonth(y, m) ==
    IF m = 1 THEN (IF IsLeapYear(y) THEN 29 ELSE 28)
    ELSE IF m \in {3, 5, 8, 10} THEN 30
    ELSE 31

\* Carries a day of month outside its month into the neighbouring months.
RECURSIVE NormalizeDay(_, _, _)
NormalizeDay(y, m, d) ==
    IF d < 1
    THEN LET py == IF m = 0 THEN y - 1 ELSE y
             pm == IF m = 0 THEN 11 ELSE m - 1
         IN  NormalizeDay(py, pm, d + DaysInMonth(py, pm))
    ELSE IF d > DaysInMonth(y, m)
    THEN NormalizeDay(IF m = 11 THEN y + 1 ELSE y,
                      IF m = 11 THEN 0 ELSE m + 1,
                      d - DaysInMonth(y, m))
    ELSE [fullYear |-> y, month |-> m, date |-> d]

\* new Date(year, monthIndex, day): a year in 0..99 means 1900 + year, and
\* out-of-range months and days carry over.
MakeDate(year, monthIndex, day) ==
    LET y0 == IF year >= 0 /\ year <= 99 THEN 1900 + year ELSE year
    IN  NormalizeDay(y0 + (monthIndex \div 12), monthIndex % 12, day)

\* /^\d{4}-\d{2}-\d{2}$/.test(value)
MatchesDateFormat(v) ==
    LET chars == JsString(v)
    IN  /\ Len(chars) = 10
        /\ chars[5] = "-" /\ chars[8] = "-"
        /\ \A i \in {1, 2, 3, 4, 6, 7, 9, 10} : chars[i] \in Digits

\* The else branch of the session_date check: the date rebuilt from the
\* parsed parts must give the parts back.
DateRoundTrips(v) ==
    LET chars == JsString(v)
        year == DigitsValue(SubSeq(chars, 1, 4))
        month == DigitsValue(SubSeq(chars, 6, 7))
        day == DigitsValue(SubSeq(chars, 9, 10))
        date == MakeDate(year, month - 1, day)
    IN  date.fullYear = year /\ date.month + 1 = month /\ date.date = day

\* TRUE iff the session_date check pushes an error.
SessionDateRejects(v) ==
    IF ~MatchesDateFormat(v) THEN TRUE ELSE ~DateRoundTrips(v)

(***************************************************************************)
(* Schema registry                                                         *)
(***************************************************************************)

Pages == {"legacy", "refactor"}
Types == {"school", "provider"}

SchoolHeadersRefactor ==
    <<"student_id", "district_id", "district_name", "school_id", "school_name",
      "current_grade_level", "gender", "ethnicity", "ell", "iep", "gifted_flag",
      "homeless_flag", "ela_state_score_two_years_ago", "ela_state_score_one_year_ago",
      "ela_state_score_current_year", "math_state_score_two_years_ago",
      "math_state_score_one_year_ago", "math_state_score_current_year",
      "performance_level_prior_year", "performance_level_current_year",
      "disability", "economic_disadvantage">>

SchoolHeadersLegacy ==
    <<"student_id", "district_id", "district_name", "school_id", "school_name",
      "current_grade_level", "gender", "ethnicity", "ell", "iep", "gifted_flag",
      "homeless_flag", "ela_state_score_two_years_ago", "ela_state_score_one_year_ago",
      "ela_state_score_current_year", "math_state_score_two_years_ago",
      "math_state_score_one_year_ago", "math_state_score_current_year",
      "performance_level_prior_year", "performance_level_current_year",
      "disability", "economic disadvantage">>

ProviderHeaders ==
    <<"student_id", "session_topic", "session_date", "session_duration", "tutor_id">>

\* const expectedHeaders of the validator that page p runs for type ty
ExpectedHeaders(p, ty) ==
    IF ty = "provider" THEN ProviderHeaders
    ELSE IF p = "legacy" THEN SchoolHeadersLegacy
    ELSE SchoolHeadersRefactor

FlagFields ==
    {"ell", "iep", "gifted_flag", "homeless_flag", "disability",
     "economic_disadvantage", "economic disadvantage"}

ScoreFields ==
    {"ela_state_score_two_years_ago", "ela_state_score_one_year_ago",
     "ela_state_score_current_year", "math_state_score_two_years_ago",
     "math_state_score_one_year_ago", "math_state_score_current_year"}

TrackedFields ==
    {"ethnicity", "performance_level_prior_year", "performance_level_current_year"}

StrictGenders == {Str(<<"M", "a", "l", "e">>), Str(<<"F", "e", "m", "a", "l", "e">>)}
StrictFlags == {Str(<<"T", "R", "U", "E">>), Str(<<"F", "A", "L", "S", "E">>)}
LenientFlags ==
    {<<"t", "r", "u", "e">>, <<"f", "a", "l", "s", "e">>, <<"1">>, <<"0">>,
     <<"y", "e", "s">>, <<"n", "o">>}
LenientGenders == LenientFlags \cup {<<"m", "a", "l", "e">>, <<"f", "e", "m", "a", "l", "e">>}
Topics == {<<"m", "a", "t", "h">>, <<"e", "l", "a">>}

\* String(value).trim().toLowerCase()
NormalizedValue(v) == ToLowerCase(TrimChars(JsString(v)))

\* parseInt(value, 10) is NaN or outside lo..hi
IntOutside(v, lo, hi) ==
    LET int == ParseInt(v) IN int.nan \/ int.n < lo \/ int.n > hi

\* fieldValidations of data_validator.html: TRUE iff the validator of the
\* field returns an error message for the value.
LegacyRejects(field, v) ==
    CASE field = "student_id" -> ~MatchesDigits(v, 10)
      [] field = "district_id" -> ~MatchesDigits(v, 7)
      [] field = "school_id" -> ~MatchesDigits(v, 6)
      [] field = "current_grade_level" -> IntOutside(v, 0, 12)
      [] field = "gender" -> v \notin StrictGenders
      [] field \in FlagFields \ {"economic_disadvantage"} -> v \notin StrictFlags
      [] field \in ScoreFields -> IntOutside(v, 650, 800)
      [] OTHER -> FALSE

\* fieldValidations of refactor/schoolValidator.js
RefactorRejects(field, v) ==
    CASE field = "student_id" -> ~MatchesDigits(v, 10)
      [] field = "district_id" -> ~MatchesDigits(v, 7)
      [] field = "school_id" -> ~MatchesDigits(v, 6)
      [] field = "current_grade_level" -> IntOutside(v, -10, 12)
      [] field = "gender" -> NormalizedValue(v) \notin LenientGenders
      [] field \in FlagFields \ {"economic disadvantage"} ->
            NormalizedValue(v) \notin LenientFlags
      [] field = "math_state_score_current_year" -> IntOutside(v, 0, 800)
      [] field \in ScoreFields -> IntOutside(v, 0, 10000)
      [] OTHER -> FALSE

SchoolRejects(p, field, v) ==
    IF p = "legacy" THEN LegacyRejects(field, v) ELSE RefactorRejects(field, v)

\* The session checks, which both copies share. The session_topic check
\* calls toLowerCase on the cell itself, which throws a TypeError unless the
\* cell is a string.
TopicThrows(v) == v.t # "string"
ProviderRejects(field, v) ==
    CASE field = "student_id" -> ~MatchesOneOrMoreDigits(v)
      [] field = "session_topic" -> ToLowerCase(JsString(v)) \notin Topics
      [] field = "session_date" -> SessionDateRejects(v)
      [] field = "session_duration" ->
            LET duration == ParseFloat(v) IN duration.nan \/ ~duration.positive
      [] field = "tutor_id" -> v.t # "string" \/ TrimChars(JsString(v)) = <<>>
      [] OTHER -> FALSE

(***************************************************************************)
(* Header conformance check and row validation engine                      *)
(***************************************************************************)

\* A header string without surrounding whitespace
H(name) == [lead |-> 0, text |-> name, trail |-> 0]

\* header.trim()
Trim(h) == [lead |-> 0, text |-> h.text, trail |-> 0]

\* const headers = rows[0].map(header => header.trim())
TrimmedHeaders(rows) == [i \in 1..Len(rows[1]) |-> Trim(rows[1][i])]

\* A header check that stops at the first missing field
MissingHeadersFirstOnly(expected, headers) ==
    LET all == SelectSeq(expected, LAMBDA f : \A i \in 1..Len(headers) : headers[i] # H(f))
    IN  IF all = <<>> THEN <<>> ELSE <<all[1]>>

\* A header check that wants the header row to be the expected list and
\* nothing more
MissingHeadersSameLength(expected, headers) ==
    IF Len(headers) # Len(expected) THEN expected
    ELSE SelectSeq(expected, LAMBDA f : \A i \in 1..Len(headers) : headers[i] # H(f))

\* expectedHeaders.filter(h => !headerSet.has(h))
MissingHeaders(expected, headers) ==
    SelectSeq(expected, LAMBDA f : \A i \in 1..Len(headers) : headers[i] # H(f))

\* An emptiness test that knows the empty string only
IsEmptyCellStringOnly(cell) == cell = Str(<<>>)

\* cell === '' || cell === null || cell === undefined
IsEmptyCell(cell) == cell = Str(<<>>) \/ cell = Null \/ cell = Undefined

\* row.every(cell => cell === '' || cell === null || cell === undefined)
IsBlankRow(row) == \A i \in 1..Len(row) : IsEmptyCell(row[i])

\* row[idx], undefined past the end of a short row (idx counts from 1 here)
CellAt(row, idx) == IF idx <= Len(row) THEN row[idx] ELSE Undefined

\* A row mapping by the schema's column order instead of the file's
RowDataBySchemaOrder(headers, row, field) ==
    LET pos == {i \in 1..Len(SchoolHeadersRefactor) :
                   \/ SchoolHeadersRefactor[i] = field
                   \/ SchoolHeadersLegacy[i] = field
                   \/ (i <= Len(ProviderHeaders) /\ ProviderHeaders[i] = field)}
    IN  IF pos = {} THEN Undefined ELSE CellAt(row, CHOOSE i \in pos : TRUE)

\* rowData[field] after headers.forEach((header, idx) => rowData[header] = row[idx]):
\* the last column carrying the name wins, a name no column carries is undefined.
RowData(headers, row, field) ==
    LET cols == {i \in 1..Len(headers) : headers[i] = H(field)}
    IN  IF cols = {} THEN Undefined
        ELSE CellAt(row, CHOOSE i \in cols : \A j \in cols : j <= i)

\* A row error numbered from the first data row as Row 1
RowErrorFromOne(rowNumber, field, value) ==
    [kind |-> "row", row |-> rowNumber - 1, field |-> field, value |-> value, count |-> 0]

\* `Row ${index + 2}: ${error}`, the message kept as its parts
RowError(rowNumber, field, value) ==
    [kind |-> "row", row |-> rowNumber, field |-> field, value |-> value, count |-> 0]

\* `The '${field}' column has more than ${limit} unique values (${size})`
AggregateError(field, size) ==
    [kind |-> "aggregate", row |-> 0, field |-> field, value |-> Undefined, count |-> size]

NoUnique == [f \in TrackedFields |-> {}]

\* let errors = []; let uniqueEthnicities = new Set(); ...: the locals of a
\* validator when it starts
NoProgress == [errors |-> <<>>, unique |-> NoUnique, calls |-> 0, threw |-> FALSE]

\* expectedHeaders.forEach(field => ...) for one row: the errors the
\* validators return, in the order of expectedHeaders.
SchoolRowErrors(p, expected, headers, row, rowNumber) ==
    LET bad == SelectSeq(expected, LAMBDA f : SchoolRejects(p, f, RowData(headers, row, f)))
    IN  [k \in 1..Len(bad) |-> RowError(rowNumber, bad[k], RowData(headers, row, bad[k]))]

\* uniqueEthnicities.add(value) and the two performance level sets
SchoolRowUnique(unique, headers, row) ==
    [f \in TrackedFields |-> unique[f] \cup {RowData(headers, row, f)}]

\* rows.slice(1).forEach((row, index) => ...) of the school validators, from
\* the row at position i of rows (the header is at position 1, so the row at
\* position i is reported as Row i).
RECURSIVE SchoolRows(_, _, _, _, _, _)
SchoolRows(p, expected, headers, rows, i, acc) ==
    IF i > Len(rows) THEN acc
    ELSE IF IsBlankRow(rows[i]) THEN SchoolRows(p, expected, headers, rows, i + 1, acc)
    ELSE SchoolRows(p, expected, headers, rows, i + 1,
            [errors |-> acc.errors \o SchoolRowErrors(p, expected, headers, rows[i], i),
             unique |-> SchoolRowUnique(acc.unique, headers, rows[i]),
             calls |-> acc.calls + Len(expected),
             threw |-> FALSE])

EthnicityLimit == 10
PerformanceLevelLimit == 6

\* Cardinality checks that fire on reaching the limit
CardinalityErrorsAtLimit(unique) ==
    (IF Cardinality(unique["ethnicity"]) >= EthnicityLimit
     THEN <<AggregateError("ethnicity", Cardinality(unique["ethnicity"]))>> ELSE <<>>)
    \o
    (IF Cardinality(unique["performance_level_prior_year"]) >= PerformanceLevelLimit
     THEN <<AggregateError("performance_level_prior_year",
                           Cardinality(unique["performance_level_prior_year"]))>> ELSE <<>>)
    \o
    (IF Cardinality(unique["performance_level_current_year"]) >= PerformanceLevelLimit
     THEN <<AggregateError("performance_level_current_year",
                           Cardinality(unique["performance_level_current_year"]))>> ELSE <<>>)

\* The cardinality checks after the row loop
CardinalityErrors(unique) ==
    (IF Cardinality(unique["ethnicity"]) > EthnicityLimit
     THEN <<AggregateError("ethnicity", Cardinality(unique["ethnicity"]))>> ELSE <<>>)
    \o
    (IF Cardinality(unique["performance_level_prior_year"]) > PerformanceLevelLimit
     THEN <<AggregateError("performance_level_prior_year",
                           Cardinality(unique["performance_level_prior_year"]))>> ELSE <<>>)
    \o
    (IF Cardinality(unique["performance_level_current_year"]) > PerformanceLevelLimit
     THEN <<AggregateError("performance_level_current_year",
                           Cardinality(unique["performance_level_current_year"]))>> ELSE <<>>)

\* The session checks in the order the row loop makes them
ProviderChecks ==
    <<"student_id", "session_topic", "session_date", "session_duration", "tutor_id">>

\* The errors the checks named in checks push for one row, in that order
ProviderRowErrors(headers, row, rowNumber, checks) ==
    LET bad == SelectSeq(checks, LAMBDA f : ProviderRejects(f, RowData(headers, row, f)))
    IN  [k \in 1..Len(bad) |-> RowError(rowNumber, bad[k], RowData(headers, row, bad[k]))]

\* The body of the session row loop for one row. The session_topic check
\* throws when the cell is no string: then only the student_id check, which
\* precedes it, has run.
ProviderRow(headers, row, rowNumber, throws) ==
    [errors |-> ProviderRowErrors(headers, row, rowNumber,
                                  IF throws THEN <<"student_id">> ELSE ProviderChecks),
     calls |-> IF throws THEN 1 ELSE Len(ProviderChecks),
     threw |-> throws]

\* rows.slice(1).forEach((row, index) => ...) of the session validators; an
\* exception leaves the loop.
RECURSIVE ProviderRows(_, _, _, _)
ProviderAfterRow(headers, rows, i, acc, r) ==
    IF r.threw
    THEN [errors |-> acc.errors \o r.errors, unique |-> acc.unique,
          calls |-> acc.calls + r.calls, threw |-> TRUE]
    ELSE ProviderRows(headers, rows, i + 1,
            [errors |-> acc.errors \o r.errors, unique |-> acc.unique,
             calls |-> acc.calls + r.calls, threw |-> FALSE])
ProviderRows(headers, rows, i, acc) ==
    IF i > Len(rows) THEN acc
    ELSE IF IsBlankRow(rows[i]) THEN ProviderRows(headers, rows, i + 1, acc)
    ELSE ProviderAfterRow(headers, rows, i, acc,
            ProviderRow(headers, rows[i], i,
                        TopicThrows(RowData(headers, rows[i], "session_topic"))))

(***************************************************************************)
(* Summary generator (refactor/summaryGenerator.js)                        *)
(***************************************************************************)

\* cell !== null && cell !== undefined && cell.toString().trim() !== ''
IsNonMissing(cell) ==
    cell # Null /\ cell # Undefined /\ TrimChars(JsString(cell)) # <<>>

\* ((nonMissingCount / numRows) * 100).toFixed(2), in hundredths of a percent;
\* 0 / 0 is NaN.
PercentNonMissing(nonMissingCount, numRows) ==
    IF numRows = 0 THEN [nan |-> TRUE, hundredths |-> 0]
    ELSE [nan |-> FALSE,
          hundredths |-> (nonMissingCount * 20000 + numRows) \div (2 * numRows)]

\* A count that takes every data row for non-missing
NonMissingCountOfAllRows(rows, col) == Len(rows) - 1

\* The non-missing cells of the column with index col (from 1)
NonMissingCount(rows, col) ==
    Cardinality({i \in 2..Len(rows) : IsNonMissing(CellAt(rows[i], col))})

\* columnStats: assigning columnStats[header] per column leaves, for a name
\* several columns carry, the value of the last of them.
ColumnStats(rows, headers) ==
    [h \in {headers[i] : i \in 1..Len(headers)} |->
        LET cols == {i \in 1..Len(headers) : headers[i] = h}
        IN  PercentNonMissing(
                NonMissingCount(rows, CHOOSE i \in cols : \A j \in cols : j <= i),
                Len(rows) - 1)]

\* District counts that leave no data row out
DistrictCountsOfAllRows(rows, headers) ==
    LET cols == {i \in 1..Len(headers) : headers[i] = H("district_id")}
        col == CHOOSE i \in cols : \A j \in cols : i <= j
    IN  [k \in {JsString(CellAt(rows[i], col)) : i \in 2..Len(rows)} |->
            Cardinality({i \in 2..Len(rows) : JsString(CellAt(rows[i], col)) = k})]

\* districtCounts: keyed by the cell as a property name, over the first
\* column named district_id (headers.indexOf).
DistrictCounts(rows, headers) ==
    LET cols == {i \in 1..Len(headers) : headers[i] = H("district_id")}
        col == CHOOSE i \in cols : \A j \in cols : i <= j
        counted == {i \in 2..Len(rows) : IsNonMissing(CellAt(rows[i], col))}
    IN  [k \in {JsString(CellAt(rows[i], col)) : i \in counted} |->
            Cardinality({i \in counted : JsString(CellAt(rows[i], col)) = k})]

NoSummary ==
    [shown |-> FALSE, numberOfRows |-> 0, percentNonMissingPerColumn |-> <<>>,
     hasDistrictCounts |-> FALSE, districtCounts |-> <<>>]

\* generateSummary(rows, headers, type): what it writes to the summary area
\* (the random uuid of the summary is not modelled).
GenerateSummary(rows, headers, ty) ==
    LET withDistricts ==
            ty = "school" /\ \E i \in 1..Len(headers) : headers[i] = H("district_id")
    IN  [shown |-> TRUE,
         numberOfRows |-> Len(rows) - 1,
         percentNonMissingPerColumn |-> ColumnStats(rows, headers),
         hasDistrictCounts |-> withDistricts,
         districtCounts |-> IF withDistricts THEN DistrictCounts(rows, headers) ELSE <<>>]

(***************************************************************************)
(* Simple reporting variant of the summary (generateOutput)                *)
(***************************************************************************)

\* columnCompletion[header] = { "non_empty_cells": nonEmptyCount,
\*                              "percent_complete": percentComplete + '%' }
Completion(nonEmptyCount, totalRows) ==
    [non_empty_cells |-> nonEmptyCount,
     percent_complete |-> PercentNonMissing(nonEmptyCount, totalRows)]

\* columnCompletion: as in columnStats, the last column of a name is the one
\* whose entry stays.
ColumnCompletion(rows, headers) ==
    [h \in {headers[i] : i \in 1..Len(headers)} |->
        LET cols == {i \in 1..Len(headers) : headers[i] = h}
        IN  Completion(
                NonMissingCount(rows, CHOOSE i \in cols : \A j \in cols : j <= i),
                Len(rows) - 1)]

\* Nothing has been appended to the output area.
NoOutput == [shown |-> FALSE, total_rows |-> 0, column_completion |-> <<>>]

\* generateOutput(rows, headers, type): the JSON it appends to the output area
GenerateOutput(rows, headers, ty) ==
    [shown |-> TRUE,
     total_rows |-> Len(rows) - 1,
     column_completion |-> ColumnCompletion(rows, headers)]

(***************************************************************************)
(* The validation handlers as functions of the table                       *)
(***************************************************************************)

Cleared == [kind |-> "cleared", missing |-> <<>>, errors |-> <<>>]
EmptyData == [kind |-> "emptyData", missing |-> <<>>, errors |-> <<>>]
InvalidHeaders(missing) == [kind |-> "invalidHeaders", missing |-> missing, errors |-> <<>>]
ErrorsFound(errors) == [kind |-> "errors", missing |-> <<>>, errors |-> errors]
Success == [kind |-> "success", missing |-> <<>>, errors |-> <<>>]

\* An empty-data test that lets a table of the header row alone through
IsEmptyTableNoRows(rows) == Len(rows) < 1

\* if (rows.length <= 1)
IsEmptyTable(rows) == Len(rows) <= 1

\* A rendering that never reports success
RenderAlwaysErrors(errors) == ErrorsFound(errors)

\* if (errors.length > 0) { Errors Found } else { Congratulations }
Render(errors) == IF Len(errors) > 0 THEN ErrorsFound(errors) ELSE Success

\* What a handler did: the content it assigned to the output area (wrote),
\* the summary it generated (summarized), and its locals when it returned or
\* threw.
Outcome(wrote, output, summarized, summary, progress) ==
    [wrote |-> wrote, output |-> output, summarized |-> summarized, summary |-> summary,
     errors |-> progress.errors, unique |-> progress.unique, calls |-> progress.calls,
     threw |-> progress.threw]

\* The end of a validator of page p: the result is rendered and, on
\* success, the refactored validators generate the summary.
Report(p, ty, rows, headers, acc) ==
    Outcome(TRUE, Render(acc.errors),
            p = "refactor" /\ Len(acc.errors) = 0,
            IF p = "refactor" /\ Len(acc.errors) = 0
            THEN GenerateSummary(rows, headers, ty) ELSE NoSummary,
            acc)

\* A school validator whose cardinality errors precede its row errors
SchoolAfterRowsAggregateFirst(p, rows, headers, acc) ==
    Report(p, "school", rows, headers,
           [acc EXCEPT !.errors = CardinalityErrors(acc.unique) \o acc.errors])

\* The school validators after the row loop: the cardinality checks push
\* their errors after the row errors.
SchoolAfterRows(p, rows, headers, acc) ==
    Report(p, "school", rows, headers,
           [acc EXCEPT !.errors = acc.errors \o CardinalityErrors(acc.unique)])

\* The session validators after the row loop, which an exception has left
\* without a word to the page.
ProviderAfterRows(p, rows, headers, acc) ==
    IF acc.threw THEN Outcome(FALSE, Cleared, FALSE, NoSummary, acc)
    ELSE Report(p, "provider", rows, headers, acc)

\* A validator of page p for type ty once the table has data rows: the
\* header check, then the row loop.
AfterHeaderCheck(p, ty, rows, headers, missing) ==
    IF Len(missing) > 0
    THEN Outcome(TRUE, InvalidHeaders(missing), FALSE, NoSummary, NoProgress)
    ELSE IF ty = "school"
    THEN SchoolAfterRows(p, rows, headers,
            SchoolRows(p, ExpectedHeaders(p, ty), headers, rows, 2, NoProgress))
    ELSE ProviderAfterRows(p, rows, headers, ProviderRows(headers, rows, 2, NoProgress))

\* A validator of page p for type ty
ValidatorOutcome(p, ty, rows) ==
    IF IsEmptyTable(rows) THEN Outcome(TRUE, EmptyData, FALSE, NoSummary, NoProgress)
    ELSE AfterHeaderCheck(p, ty, rows, TrimmedHeaders(rows),
                          MissingHeaders(ExpectedHeaders(p, ty), TrimmedHeaders(rows)))

\* validateSchoolData(rows) of refactor/schoolValidator.js
SchoolValidation(rows) == ValidatorOutcome("refactor", "school", rows)

\* validateProviderData(rows) of the refactored validator
ProviderValidation(rows) == ValidatorOutcome("refactor", "provider", rows)

\* validateData(rows, type) of data_validator.html
LegacyValidation(rows, ty) == ValidatorOutcome("legacy", ty, rows)

\* The validation page p runs for a table of type ty
Validation(p, ty, rows) ==
    IF p = "legacy" THEN LegacyValidation(rows, ty)
    ELSE IF ty = "school" THEN SchoolValidation(rows)
    ELSE ProviderValidation(rows)

(***************************************************************************)
(* merge.html: parseAndMerge                                               *)
(*                                                                         *)
(* A parsed CSV file (Papa.parse with header: true) is a record [fields,   *)
(* data]: the field names of its header line in order, and one row object  *)
(* per data line. A row object is a record [keys, val]: its property names *)
(* in insertion order and the function from them to their values. A cell   *)
(* is a record [src, row, text]: the text of the cell, and the file and    *)
(* data line it was read from.                                             *)
(***************************************************************************)

Cell(src, row, text) == [src |-> src, row |-> row, text |-> text]

\* The empty string Papa.unparse writes for a field a row object lacks
EmptyText == Cell("", 0, "")

\* {}
EmptyObject == [keys |-> <<>>, val |-> <<>>]

\* row.student_id as a property key: String(undefined) when the row object has
\* no such property
KeyOf(obj) ==
    IF "student_id" \in DOMAIN obj.val THEN obj.val["student_id"].text ELSE "undefined"

\* A lookup that keeps the first row of a key
FirstWriteWins(lookup, row) ==
    IF KeyOf(row) \in DOMAIN lookup THEN lookup
    ELSE [k \in DOMAIN lookup \cup {KeyOf(row)} |-> IF k = KeyOf(row) THEN row ELSE lookup[k]]

\* schoolLookup[row.student_id] = row
Assign(lookup, row) ==
    [k \in DOMAIN lookup \cup {KeyOf(row)} |-> IF k = KeyOf(row) THEN row ELSE lookup[k]]

\* schools.forEach(row => { schoolLookup[row.student_id] = row; }), from the
\* row at position i
RECURSIVE SchoolLookup(_, _, _)
SchoolLookup(schools, i, lookup) ==
    IF i > Len(schools) THEN lookup
    ELSE SchoolLookup(schools, i + 1, Assign(lookup, schools[i]))

\* schoolLookup[providerRow.student_id] || {}
Match(lookup, providerRow) ==
    IF KeyOf(providerRow) \in DOMAIN lookup THEN lookup[KeyOf(providerRow)] ELSE EmptyObject

\* {...providerRow, ...match}: the properties of providerRow in their order,
\* then those only match has; match gives the value of a shared property.
Spread(providerRow, match) ==
    [keys |-> providerRow.keys
                \o SelectSeq(match.keys, LAMBDA f : f \notin DOMAIN providerRow.val),
     val |-> [f \in DOMAIN providerRow.val \cup DOMAIN match.val |->
                 IF f \in DOMAIN match.val THEN match.val[f] ELSE providerRow.val[f]]]

\* providers.map(providerRow => ...)
Merged(providers, lookup) ==
    [i \in 1..Len(providers) |-> Spread(providers[i], Match(lookup, providers[i]))]

\* Object.keys(merged[0] || {})
Fields(merged) == IF Len(merged) = 0 THEN <<>> ELSE merged[1].keys

\* Papa.unparse({ data: merged, fields: fields }): the header line and one
\* line per row object, holding its values of the fields and the empty
\* string for a field it lacks. Nothing is written when there are no fields.
Unparse(merged, fields) ==
    [kind |-> "csv",
     fields |-> fields,
     rows |-> IF fields = <<>> THEN <<>>
              ELSE [i \in 1..Len(merged) |->
                       [j \in 1..Len(fields) |->
                           IF fields[j] \in DOMAIN merged[i].val
                           THEN merged[i].val[fields[j]] ELSE EmptyText]]]

\* The complete callback of the second Papa.parse
MergeOutput(providers, schools) ==
    Unparse(Merged(providers, SchoolLookup(schools, 1, <<>>)),
            Fields(Merged(providers, SchoolLookup(schools, 1, <<>>))))

\* No file chosen in a file input
NoFile == [fields |-> <<>>, data |-> <<>>, chosen |-> FALSE]

\* let mergedCSV = ''
NotMerged == [kind |-> "none", fields |-> <<>>, rows |-> <<>>]

\* "Please select both CSV files."
SelectBoth == [kind |-> "message", fields |-> <<>>, rows |-> <<>>]

(***************************************************************************)
(* File ingestion (validateFile's reader.onload and processJSON)           *)
(***************************************************************************)

\* The part of a file name after its last '.', the whole name when it has
\* none: selectedFile.name.split('.').pop()
LastPart(name) ==
    LET dots == {i \in 1..Len(name) : name[i] = "."}
    IN  IF dots = {} THEN name
        ELSE SubSeq(name, (CHOOSE i \in dots : \A j \in dots : j <= i) + 1, Len(name))

\* const fileType = selectedFile.name.split('.').pop().toLowerCase()
FileType(name) == ToLowerCase(LastPart(name))

\* A dispatch that hands every file to some ingestion function
IsSupportedAlways(fileType) == TRUE

\* fileType === 'csv' || fileType === 'xlsx' || fileType === 'json'
IsSupported(fileType) ==
    fileType \in {<<"c", "s", "v">>, <<"x", "l", "s", "x">>, <<"j", "s", "o", "n">>}

\* The value of a key that is a canonical array index ("0", "1", "2023"),
\* -1 for any other key: such keys come first in Object.keys, in ascending
\* numeric order.
ArrayIndex(key) ==
    CASE key = "0" -> 0
      [] key = "7" -> 7
      [] key = "2023" -> 2023
      [] key = "2024" -> 2024
      [] OTHER -> -1

\* Object.keys(obj) of a record parsed from JSON: the array-index keys in
\* ascending order, then the other keys in insertion order.
ObjectKeys(obj) ==
    SortSeq(SelectSeq(obj.keys, LAMBDA k : ArrayIndex(k) >= 0),
            LAMBDA a, b : ArrayIndex(a) < ArrayIndex(b))
    \o SelectSeq(obj.keys, LAMBDA k : ArrayIndex(k) < 0)

\* obj[header]
Property(obj, header) ==
    IF header \in DOMAIN obj.val THEN obj.val[header] ELSE Undefined

\* [headers].concat(jsonData.map(obj => headers.map(header => obj[header])))
JsonRows(jsonData, headers) ==
    <<[j \in 1..Len(headers) |-> H(headers[j])]>>
    \o [i \in 1..Len(jsonData) |->
            [j \in 1..Len(headers) |-> Property(jsonData[i], headers[j])]]

\* What an ingestion function did: the modal it showed, or the table it
\* handed to validateData.
Rejected(title) == [validated |-> FALSE, modal |-> title, rows |-> <<>>]
Ingested(rows) == [validated |-> TRUE, modal |-> "none", rows |-> rows]

\* processJSON(data, type)
ProcessJSON(jsonData) ==
    IF Len(jsonData) = 0 THEN Rejected("Empty File")
    ELSE Ingested(JsonRows(jsonData, ObjectKeys(jsonData[1])))

\* reader.onload: the dispatch on the file type. The content of a csv or
\* xlsx file is given as the rows its ingestion function produces (data),
\* that of a JSON file as the array JSON.parse returns (records).
OnLoad(file) ==
    IF ~IsSupported(FileType(file.name)) THEN Rejected("Unsupported File Type")
    ELSE IF FileType(file.name) = <<"j", "s", "o", "n">> THEN ProcessJSON(file.records)
    ELSE Ingested(file.data)

(***************************************************************************)
(* The tables the validators are run on                                    *)
(***************************************************************************)

\* A student row every validator of both pages accepts (the cell of a column
\* that is no schema field is "n/a").
StrictCell(field) ==
    CASE field = "student_id" -> Str(<<"1", "2", "3", "4", "5", "6", "7", "8", "9", "0">>)
      [] field = "district_id" -> Str(<<"1", "2", "3", "4", "5", "6", "7">>)
      [] field = "district_name" -> Str(<<"E", "x", "a", "m", "p", "l", "e", " ", "D", "i", "s", "t">>)
      [] field = "school_id" -> Str(<<"1", "2", "3", "4", "5", "6">>)
      [] field = "school_name" -> Str(<<"E", "x", "a", "m", "p", "l", "e", " ", "S", "c", "h", "o", "o", "l">>)
      [] field = "current_grade_level" -> Str(<<"8">>)
      [] field = "gender" -> Str(<<"M", "a", "l", "e">>)
      [] field = "ethnicity" -> Str(<<"H", "i", "s", "p", "a", "n", "i", "c">>)
      [] field = "ell" -> Str(<<"T", "R", "U", "E">>)
      [] field = "iep" -> Str(<<"F", "A", "L", "S", "E">>)
      [] field = "gifted_flag" -> Str(<<"F", "A", "L", "S", "E">>)
      [] field = "homeless_flag" -> Str(<<"F", "A", "L", "S", "E">>)
      [] field = "ela_state_score_two_years_ago" -> Str(<<"7", "0", "0">>)
      [] field = "ela_state_score_one_year_ago" -> Str(<<"7", "1", "0">>)
      [] field = "ela_state_score_current_year" -> Str(<<"7", "2", "0">>)
      [] field = "math_state_score_two_years_ago" -> Str(<<"7", "0", "0">>)
      [] field = "math_state_score_one_year_ago" -> Str(<<"7", "1", "0">>)
      [] field = "math_state_score_current_year" -> Str(<<"7", "2", "0">>)
      [] field = "performance_level_prior_year" -> Str(<<"p", "r", "o", "f", "i", "c", "i", "e", "n", "t">>)
      [] field = "performance_level_current_year" -> Str(<<"p", "r", "o", "f", "i", "c", "i", "e", "n", "t">>)
      [] field = "disability" -> Str(<<"F", "A", "L", "S", "E">>)
      [] field = "economic_disadvantage" -> Str(<<"T", "R", "U", "E">>)
      [] field = "economic disadvantage" -> Str(<<"T", "R", "U", "E">>)
      [] OTHER -> Str(<<"n", "/", "a">>)

\* Cells at the edges of the two policies: spellings and ranges only the
\* refactored validators accept, or only some of them.
LenientCell(field) ==
    CASE field = "current_grade_level" -> Str(<<"-", "5">>)
      [] field = "gender" -> Str(<<" ", "f", "e", "m", "a", "l", "e">>)
      [] field = "ell" -> Str(<<"y", "e", "s">>)
      [] field = "iep" -> Str(<<"N", "o">>)
      [] field = "gifted_flag" -> Str(<<"1">>)
      [] field = "homeless_flag" -> Str(<<"0">>)
      [] field = "disability" -> Str(<<"t", "r", "u", "e">>)
      [] field = "economic_disadvantage" -> Str(<<"F", "a", "l", "s", "e", " ">>)
      [] field = "economic disadvantage" -> Str(<<"F", "a", "l", "s", "e", " ">>)
      [] field = "ela_state_score_two_years_ago" -> Str(<<"0">>)
      [] field = "ela_state_score_one_year_ago" -> Str(<<"6", "4", "9">>)
      [] field = "ela_state_score_current_year" -> Str(<<"8", "0", "1">>)
      [] field = "math_state_score_two_years_ago" -> Str(<<"1", "0", "0", "0", "0">>)
      [] field = "math_state_score_one_year_ago" -> Str(<<"9">>)
      [] field = "math_state_score_current_year" -> Str(<<"8", "0", "0">>)
      [] OTHER -> StrictCell(field)

\* Cells as a spreadsheet or a JSON file supplies them: numbers, booleans, null.
NumericCell(field) ==
    CASE field = "student_id" -> Num(<<"1", "2", "3", "4", "5", "6", "7", "8", "9", "0">>)
      [] field = "district_id" -> Num(<<"1", "2", "3", "4", "5", "6", "7">>)
      [] field = "school_id" -> Num(<<"1", "2", "3", "4", "5", "6">>)
      [] field = "current_grade_level" -> Num(<<"8">>)
      [] field = "ell" -> Bool(<<"t", "r", "u", "e">>)
      [] field = "iep" -> Bool(<<"f", "a", "l", "s", "e">>)
      [] field = "gifted_flag" -> Num(<<"1">>)
      [] field = "homeless_flag" -> Num(<<"0">>)
      [] field = "disability" -> Bool(<<"f", "a", "l", "s", "e">>)
      [] field = "economic_disadvantage" -> Bool(<<"t", "r", "u", "e">>)
      [] field = "economic disadvantage" -> Bool(<<"t", "r", "u", "e">>)
      [] field = "district_name" -> Null
      [] field = "ethnicity" -> Null
      [] field = "ela_state_score_two_years_ago" -> Num(<<"7", "0", "0">>)
      [] field = "ela_state_score_one_year_ago" -> Num(<<"7", "1", "0", ".", "5">>)
      [] field = "ela_state_score_current_year" -> Num(<<"7", "2", "0">>)
      [] field = "math_state_score_two_years_ago" -> Num(<<"7", "0", "0">>)
      [] field = "math_state_score_one_year_ago" -> Num(<<"7", "1", "0">>)
      [] field = "math_state_score_current_year" -> Num(<<"7", "2", "0">>)
      [] OTHER -> StrictCell(field)

\* Cells the validators of both pages reject.
BadCell(field) ==
    CASE field = "student_id" -> Str(<<"1", "2", "3", "4", "5">>)
      [] field = "district_id" -> Str(<<"1", "2", "3", "4", "5", "6", "7", "8">>)
      [] field = "school_id" -> Str(<<"1", "2", "a", "4", "5", "6">>)
      [] field = "current_grade_level" -> Str(<<"1", "3">>)
      [] field = "gender" -> Str(<<"X">>)
      [] field = "ell" -> Str(<<"m", "a", "y", "b", "e">>)
      [] field = "iep" -> Str(<<>>)
      [] field = "gifted_flag" -> Str(<<"T">>)
      [] field = "homeless_flag" -> Str(<<"2">>)
      [] field = "disability" -> Str(<<"s", "i">>)
      [] field = "economic_disadvantage" -> Str(<<"-">>)
      [] field = "economic disadvantage" -> Str(<<"-">>)
      [] field = "ela_state_score_two_years_ago" -> Str(<<"-", "1">>)
      [] field = "ela_state_score_one_year_ago" -> Str(<<"a", "b", "c">>)
      [] field = "ela_state_score_current_year" -> Str(<<"1", "0", "0", "0", "1">>)
      [] field = "math_state_score_two_years_ago" -> Str(<<>>)
      [] field = "math_state_score_one_year_ago" -> Str(<<"7", "e", "2", "x">>)
      [] field = "math_state_score_current_year" -> Str(<<"8", "0", "1">>)
      [] OTHER -> StrictCell(field)

\* A session row every check accepts.
SessionCell(field) ==
    CASE field = "student_id" -> Str(<<"1", "2", "3">>)
      [] field = "session_topic" -> Str(<<"M", "a", "t", "h">>)
      [] field = "session_date" -> Str(<<"2", "0", "2", "4", "-", "0", "2", "-", "2", "9">>)
      [] field = "session_duration" -> Str(<<"4", "5">>)
      [] field = "tutor_id" -> Str(<<"T", "1">>)
      [] OTHER -> Str(<<"n", "/", "a">>)

\* Cells the session checks reject.
BadSessionCell(field) ==
    CASE field = "student_id" -> Str(<<"1", "2", "a">>)
      [] field = "session_topic" -> Str(<<"s", "c", "i", "e", "n", "c", "e">>)
      [] field = "session_date" -> Str(<<"2", "0", "2", "4", "-", "0", "2", "-", "3", "0">>)
      [] field = "session_duration" -> Str(<<"0">>)
      [] field = "tutor_id" -> Str(<<" ", " ">>)
      [] OTHER -> SessionCell(field)

\* Session cells as a spreadsheet supplies them.
NumericSessionCell(field) ==
    CASE field = "student_id" -> Num(<<"1", "2", "3">>)
      [] field = "session_topic" -> Str(<<"E", "L", "A">>)
      [] field = "session_date" -> Str(<<"2", "0", "2", "3", "-", "1", "2", "-", "3", "1">>)
      [] field = "session_duration" -> Num(<<"3", "7", ".", "5">>)
      [] field = "tutor_id" -> Num(<<"7">>)
      [] OTHER -> SessionCell(field)


MaxMissing == 2
MaxMultiRows == 3
MaxCardRows == 11

\* Header rows built from the expected header list E of a validator
Exact(E) == [i \in 1..Len(E) |-> H(E[i])]
Padded(E) == [i \in 1..Len(E) |-> [lead |-> 1, text |-> E[i], trail |-> 2]]
Reversed(E) == [i \in 1..Len(E) |-> H(E[Len(E) + 1 - i])]
ExtraFront(E) == <<H("notes")>> \o Exact(E)
ExtraEnd(E) == Exact(E) \o <<[lead |-> 0, text |-> "notes", trail |-> 1]>>
Misspelt(E) == [i \in 1..Len(E) |-> IF i = 1 THEN H("Student_ID") ELSE H(E[i])]

RECURSIVE WithoutFrom(_, _, _)
WithoutFrom(E, D, i) ==
    IF i > Len(E) THEN <<>>
    ELSE (IF i \in D THEN <<>> ELSE <<H(E[i])>>) \o WithoutFrom(E, D, i + 1)
Without(E, D) == WithoutFrom(E, D, 1)

\* The sets of at most k column positions out of 1..n
RECURSIVE Positions(_, _)
Positions(n, k) ==
    IF k = 0 THEN {{}}
    ELSE {D \cup {i} : D \in Positions(n, k - 1), i \in 1..n} \cup {{}}

ValidHeaderRows(E) == {Exact(E), Padded(E), Reversed(E), ExtraFront(E), ExtraEnd(E)}

\* Header rows that lack an expected field: up to MaxMissing columns dropped,
\* a name in another case, and the school list of the other page
\* (economic_disadvantage against "economic disadvantage").
InvalidHeaderRows(p, ty) ==
    LET E == ExpectedHeaders(p, ty)
    IN  {Without(E, D) : D \in Positions(Len(E), MaxMissing) \ {{}}}
        \cup {Misspelt(E)}
        \cup (IF ty = "school"
              THEN {Exact(ExpectedHeaders(IF p = "legacy" THEN "refactor" ELSE "legacy", ty))}
              ELSE {})

Kind(k, f, n) == [k |-> k, f |-> f, n |-> n]

\* The cell of row kind kind in the column named name at position i
CellOf(ty, kind, name, i) ==
    LET good == IF ty = "school" THEN StrictCell(name) ELSE SessionCell(name)
        bad == IF ty = "school" THEN BadCell(name) ELSE BadSessionCell(name)
    IN  CASE kind.k = "lenient" -> LenientCell(name)
          [] kind.k = "numeric" ->
                IF ty = "school" THEN NumericCell(name) ELSE NumericSessionCell(name)
          [] kind.k = "allBad" -> bad
          [] kind.k = "badField" -> IF name = kind.f THEN bad ELSE good
          [] kind.k = "nullField" -> IF name = kind.f THEN Null ELSE good
          [] kind.k = "blank" -> Str(<<>>)
          [] kind.k = "blankMixed" -> <<Str(<<>>), Null, Undefined>>[(i % 3) + 1]
          [] OTHER -> good

\* A data row under header row header; a short row lacks its trailing cells.
BuildRow(ty, kind, header) ==
    LET cells == [i \in 1..Len(header) |-> CellOf(ty, kind, header[i].text, i)]
    IN  IF kind.k = "short" THEN SubSeq(cells, 1, kind.n) ELSE cells

SingleKinds(ty, E, header) ==
    {Kind(k, "", 0) : k \in {"strict", "numeric", "allBad", "blank", "blankMixed"}}
    \cup (IF ty = "school" THEN {Kind("lenient", "", 0)} ELSE {})
    \cup {Kind(k, E[i], 0) : k \in {"badField", "nullField"}, i \in 1..Len(E)}
    \cup {Kind("short", "", n) : n \in 1..(Len(header) - 1)}

MultiKinds ==
    {Kind("strict", "", 0), Kind("blankMixed", "", 0), Kind("allBad", "", 0),
     Kind("short", "", 2)}

\* k-th value of a column whose values all differ: "v1", "v2", ...
Tagged(k) ==
    Str(<<"v">> \o (IF k < 10 THEN <<DigitChars[k + 1]>>
                    ELSE <<DigitChars[(k \div 10) + 1], DigitChars[(k % 10) + 1]>>))

\* The k-th of n student rows whose cells in the columns varied all differ;
\* with blankFirst the first row is blank.
CardRow(header, varied, blankFirst, k) ==
    IF blankFirst /\ k = 1 THEN BuildRow("school", Kind("blankMixed", "", 0), header)
    ELSE [i \in 1..Len(header) |->
            IF header[i].text \in varied THEN Tagged(k) ELSE StrictCell(header[i].text)]

CardTables(E) ==
    {<<Exact(E)>> \o [k \in 1..n |-> CardRow(Exact(E), varied, blankFirst, k)] :
        n \in 1..MaxCardRows, varied \in SUBSET TrackedFields, blankFirst \in BOOLEAN}

\* Student tables with more distinct values than the limits allow in every
\* tracked column and rows that fail their field checks
MixedTables(E) ==
    LET card == [k \in 1..MaxCardRows |-> CardRow(Exact(E), TrackedFields, FALSE, k)]
        bad == BuildRow("school", Kind("allBad", "", 0), Exact(E))
    IN  {<<Exact(E), bad>> \o card \o <<bad>>, <<Exact(E)>> \o card \o <<bad>>}

\* Session dates: every combination of the years, months and days below
\* written as YYYY-MM-DD, and values that are not of that form.
DateYears ==
    {<<"0", "0", "0", "0">>, <<"0", "0", "9", "9">>, <<"0", "1", "0", "0">>,
     <<"1", "9", "0", "0">>, <<"2", "0", "2", "3">>, <<"2", "0", "2", "4">>}
DateMonths ==
    {<<"0", "0">>, <<"0", "1">>, <<"0", "2">>, <<"0", "4">>, <<"1", "2">>, <<"1", "3">>}
DateDays ==
    {<<"0", "0">>, <<"0", "1">>, <<"2", "8">>, <<"2", "9">>, <<"3", "0">>, <<"3", "1">>,
     <<"3", "2">>}
DateString(y, m, d) == Str(y \o <<"-">> \o m \o <<"-">> \o d)
MalformedDates ==
    {Str(<<"2", "0", "2", "4", "-", "2", "-", "3">>),
     Str(<<"2", "4", "-", "0", "2", "-", "0", "3">>),
     Str(<<"2", "0", "2", "4", "/", "0", "2", "/", "0", "3">>),
     Str(<<" ", "2", "0", "2", "4", "-", "0", "2", "-", "0", "3">>),
     Str(<<"2", "0", "2", "4", "-", "0", "2", "-", "0", "3", "x">>),
     Str(<<"0", "2", "-", "0", "3", "-", "2", "0", "2", "4">>),
     Num(<<"2", "0", "2", "4", "0", "2", "0", "3">>),
     Str(<<>>), Null, Undefined}
DateCells ==
    {DateString(y, m, d) : y \in DateYears, m \in DateMonths, d \in DateDays}
    \cup MalformedDates

\* A session row that is valid in every cell but, perhaps, session_date
DateRow(header, date) ==
    [i \in 1..Len(header) |->
        IF header[i].text = "session_date" THEN date ELSE SessionCell(header[i].text)]

DateTables == {<<Exact(ProviderHeaders), DateRow(Exact(ProviderHeaders), d)>> : d \in DateCells}

\* Cells for one field of a student row that is otherwise valid under both
\* policies
GradeCells ==
    {Str(<<"0">>), Str(<<"1", "2">>), Str(<<"1", "3">>), Str(<<"-", "1">>), Str(<<"-", "5">>),
     Str(<<"-", "1", "0">>), Str(<<"-", "1", "1">>), Str(<<"7", ".", "5">>),
     Str(<<"8", "t", "h">>), Str(<<"a", "b", "c">>), Str(<<"0", "1", "2">>), Str(<<>>),
     Num(<<"8">>), Num(<<"7", ".", "5">>), Num(<<"-", "1">>), Num(<<"1", "3">>),
     Null, Undefined}
ScoreCells ==
    {Str(<<"6", "4", "9">>), Str(<<"6", "5", "0">>), Str(<<"8", "0", "0">>),
     Str(<<"8", "0", "1">>), Str(<<"0">>), Str(<<"-", "1">>),
     Str(<<"1", "0", "0", "0", "0">>), Str(<<"1", "0", "0", "0", "1">>),
     Str(<<"7", "0", "0", ".", "5">>), Str(<<"7", "0", "0", "a", "b", "c">>),
     Str(<<"a", "b", "c">>), Str(<<>>),
     Num(<<"7", "0", "0">>), Num(<<"7", "0", "0", ".", "5">>), Num(<<"8", "0", "1">>),
     Null, Undefined}
GenderCells ==
    {Str(<<"M", "a", "l", "e">>), Str(<<"F", "e", "m", "a", "l", "e">>),
     Str(<<"m", "a", "l", "e">>), Str(<<"F", "E", "M", "A", "L", "E">>), Str(<<"M">>),
     Str(<<"y", "e", "s">>), Str(<<"O", "t", "h", "e", "r">>), Str(<<>>),
     Bool(<<"t", "r", "u", "e">>), Num(<<"1">>), Null, Undefined}
FlagCells ==
    {Str(<<"T", "R", "U", "E">>), Str(<<"F", "A", "L", "S", "E">>),
     Str(<<"t", "r", "u", "e">>), Str(<<"F", "a", "l", "s", "e">>), Str(<<"Y", "e", "s">>),
     Str(<<"1">>), Str(<<"m", "a", "y", "b", "e">>), Str(<<>>),
     Bool(<<"t", "r", "u", "e">>), Bool(<<"f", "a", "l", "s", "e">>), Num(<<"0">>),
     Null, Undefined}
ProbeCells(field) ==
    CASE field = "current_grade_level" -> GradeCells
      [] field \in ScoreFields -> ScoreCells
      [] field = "gender" -> GenderCells
      [] field \in FlagFields -> FlagCells
      [] OTHER -> {}

ProbeRow(header, field, cell) ==
    [i \in 1..Len(header) |->
        IF header[i].text = field THEN cell ELSE StrictCell(header[i].text)]

\* One-row student tables under the header E that differ from a valid row
\* in one cell
ProbeTables(E) ==
    UNION {{<<Exact(E), ProbeRow(Exact(E), E[i], cell)>> : cell \in ProbeCells(E[i])} :
           i \in 1..Len(E)}

\* One-row student tables whose six state score cells hold the same value
ScoreTables(E) ==
    {<<Exact(E), [i \in 1..Len(E) |->
                    IF E[i] \in ScoreFields THEN cell ELSE StrictCell(E[i])]>> :
        cell \in ScoreCells}

\* The tables ingestion hands to the validator of page p for type ty
Tables(p, ty) ==
    LET E == ExpectedHeaders(p, ty)
        valid == ValidHeaderRows(E)
        invalid == InvalidHeaderRows(p, ty)
    IN  {<<>>}
        \cup {<<h>> : h \in valid \cup invalid}
        \cup {<<h, BuildRow(ty, kind, h)>> :
                h \in invalid, kind \in {Kind("strict", "", 0), Kind("allBad", "", 0)}}
        \cup UNION {{<<h, BuildRow(ty, kind, h)>> : kind \in SingleKinds(ty, E, h)} : h \in valid}
        \cup UNION {{<<Exact(E)>> \o [k \in 1..n |-> BuildRow(ty, body[k], Exact(E))] :
                        body \in [1..n -> MultiKinds]} : n \in 2..MaxMultiRows}
        \cup {<<Reversed(E)>> \o [k \in 1..2 |-> BuildRow(ty, body[k], Reversed(E))] :
                body \in [1..2 -> MultiKinds]}
        \cup (IF ty = "school" THEN CardTables(E) ELSE {})
        \cup (IF ty = "school" THEN ProbeTables(E) ELSE {})
        \cup (IF ty = "school" THEN MixedTables(E) ELSE {})
        \cup (IF ty = "school" THEN ScoreTables(E) ELSE {})
        \cup (IF ty = "provider" THEN DateTables ELSE {})

(***************************************************************************)
(* The files parseAndMerge is run on                                       *)
(***************************************************************************)

MaxProviderRows == 2
MaxSchoolRows == 2

MergeKeys == {"100", "200"}

ProviderFileFields ==
    {<<"student_id", "session_topic">>,
     <<"session_topic", "student_id", "school_name">>,
     <<"session_topic", "tutor_id">>}

SchoolFileFields ==
    {<<"student_id", "school_name">>,
     <<"school_name", "student_id", "gender">>,
     <<"student_id">>,
     <<"school_name", "gender">>}

\* The parsed file with the header fields whose data line i has the key
\* keys[i] in its student_id column, if it has one, and in every other
\* column a text of its own.
ParsedFile(src, fields, keys) ==
    [fields |-> fields,
     data |-> [i \in 1..Len(keys) |->
                  [keys |-> fields,
                   val |-> [f \in {fields[j] : j \in 1..Len(fields)} |->
                               Cell(src, i, IF f = "student_id" THEN keys[i] ELSE f)]]],
     chosen |-> TRUE]

KeyColumns(n) == UNION {[1..k -> MergeKeys] : k \in 0..n}

ProviderFiles ==
    {NoFile} \cup {ParsedFile("provider", fields, keys) :
                      fields \in ProviderFileFields, keys \in KeyColumns(MaxProviderRows)}

SchoolFiles ==
    {NoFile} \cup {ParsedFile("school", fields, keys) :
                      fields \in SchoolFileFields, keys \in KeyColumns(MaxSchoolRows)}

(***************************************************************************)
(* The tables the summary generators are given                             *)
(***************************************************************************)

MaxSummaryRows == 2

SummaryHeaders ==
    {<<H("district_id")>>,
     <<H("student_id"), H("district_id")>>,
     <<H("session_topic"), H("session_topic")>>,
     <<H("district_id"), H("district_id")>>}

SummaryCells == {Str(<<"a">>), Str(<<" ">>), Null, Num(<<"0">>)}

\* Data rows as long as the header row, or one cell short of it
SummaryRows(headers) ==
    [1..Len(headers) -> SummaryCells] \cup [1..(Len(headers) - 1) -> SummaryCells]

\* The tables under the header row headers
SummaryTables(headers) ==
    {<<headers>> \o data :
        data \in UNION {[1..n -> SummaryRows(headers)] : n \in 0..MaxSummaryRows}}

(***************************************************************************)
(* The files that are selected on a validator page                         *)
(***************************************************************************)

MaxStarted == 2

File(name, data, records) ==
    [name |-> name, data |-> data, records |-> records, chosen |-> TRUE]

\* No file is selected: selectedFile is undefined.
NoSelection == [name |-> <<>>, data |-> <<>>, records |-> <<>>, chosen |-> FALSE]

\* The record with the keys keys, written in that order, and cells of row
\* kind kind
Record(ty, kind, keys) ==
    [keys |-> keys,
     val |-> [k \in {keys[i] : i \in 1..Len(keys)} |-> CellOf(ty, Kind(kind, "", 0), k, 1)]]

OneRowTable(ty, kind, E) == <<Exact(E), BuildRow(ty, Kind(kind, "", 0), Exact(E))>>

JsonFiles(ty, E) ==
    {File(<<"e", ".", "j", "s", "o", "n">>, <<>>, <<>>),
     File(<<"b", ".", "J", "S", "O", "N">>, <<>>,
          <<Record(ty, "strict", E \o <<"2023", "7">>),
            Record(ty, "strict", SubSeq(E, 1, Len(E) - 1) \o <<"notes">>)>>)}

PageFiles(p, ty) ==
    LET E == ExpectedHeaders(p, ty)
    IN  IF ty = "school"
        THEN {File(<<"o", "k", ".", "c", "s", "v">>, OneRowTable(ty, "strict", E), <<>>),
              File(<<"b", "a", "d", ".", "X", "L", "S", "X">>, OneRowTable(ty, "allBad", E), <<>>),
              File(<<"n", ".", "t", "x", "t">>, OneRowTable(ty, "strict", E), <<>>)}
             \cup JsonFiles(ty, E)
        ELSE {File(<<"c", "s", "v">>, OneRowTable(ty, "strict", E), <<>>),
              File(<<"a", ".", "c", "s", "v", ".", "b", "a", "k">>,
                   OneRowTable(ty, "allBad", E), <<>>)}

(***************************************************************************)
(* State machine: a table is ingested, then the page's validator runs      *)
(***************************************************************************)

\* What one validation left: the content of the output area, the error list
\* and the unique-value sets of the validator, and whether it threw.
ValidationReport(out, errs, uniq, threw) ==
    [output |-> out, errors |-> errs, unique |-> uniq, threw |-> threw]

\* No validation has ended yet.
NoReport == ValidationReport(Cleared, <<>>, NoUnique, FALSE) @@ [none |-> TRUE]

VARIABLES
    page,       \* which copy of the validator the browser has loaded
    type,       \* 'school' or 'provider'
    rows,       \* the table ingestion hands to the validator
    pc,         \* "ready": validateFile has run, the validator not yet;
                \* "done": the validator returned; "threw": it threw
    output,     \* innerHTML of outputSchool and outputProvider
    summary,    \* innerHTML of summarySchool and summaryProvider
    errors,     \* the validator's local errors when it returned or threw
    unique,     \* its unique-value sets then
    calls,      \* the number of field checks it made
    previous,   \* the report of the validation before the last validateFile
    providerFile,   \* merge.html: the parsed file of the providerFile input
    schoolFile,     \* the parsed file of the schoolFile input
    mergedCSV,      \* what parseAndMerge wrote to the output element
    jsonOutput,     \* the data summary generateOutput appended to the output area
    selectedFile,   \* selectedFileSchool and selectedFileProvider
    reads,          \* the FileReader reads that have not completed
    modal,          \* the title of the modal dialog shown last
    started         \* the number of validateFile invocations so far

validatorVars == <<page, type, rows, pc, output, summary, errors, unique, calls, previous>>
mergeVars == <<providerFile, schoolFile, mergedCSV>>
pageVars == <<selectedFile, reads, modal, started>>
vars == <<validatorVars, mergeVars, jsonOutput, pageVars>>

\* validateFile has cleared the output and summary areas before the read.
Init ==
    /\ page \in Pages
    /\ type \in Types
    /\ rows \in Tables(page, type)
    /\ pc = "ready"
    /\ output = [ty \in Types |-> Cleared]
    /\ summary = [ty \in Types |-> NoSummary]
    /\ errors = <<>>
    /\ unique = NoUnique
    /\ calls = 0
    /\ previous = NoReport
    /\ providerFile = NoFile /\ schoolFile = NoFile /\ mergedCSV = NotMerged
    /\ jsonOutput = NoOutput
    /\ selectedFile = [ty \in Types |-> NoSelection] /\ reads = {} /\ modal = "none"
    /\ started = 0

\* validateFile(type) on the file already selected, once its validation has
\* ended: it clears the output area, and on the refactored page the summary
\* area, and the read hands the same table to the validator again.
ValidateFile ==
    /\ pc \in {"done", "threw"}
    /\ pc' = "ready"
    /\ output' = [output EXCEPT ![type] = Cleared]
    /\ summary' = IF page = "refactor" THEN [summary EXCEPT ![type] = NoSummary] ELSE summary
    /\ previous' = ValidationReport(output[type], errors, unique, pc = "threw")
    /\ UNCHANGED <<page, type, rows, errors, unique, calls, mergeVars, jsonOutput, pageVars>>

\* A handler whose error list and unique-value sets outlive the call: each
\* validation adds to what the one before left.
ApplyAccumulating(r) ==
    /\ pc' = IF r.threw THEN "threw" ELSE "done"
    /\ output' = IF ~r.wrote THEN output
                 ELSE IF r.output.kind \in {"errors", "success"}
                 THEN [output EXCEPT ![type] = Render(errors \o r.errors)]
                 ELSE [output EXCEPT ![type] = r.output]
    /\ summary' = IF r.summarized THEN [summary EXCEPT ![type] = r.summary] ELSE summary
    /\ errors' = errors \o r.errors
    /\ unique' = [f \in TrackedFields |-> unique[f] \cup r.unique[f]]
    /\ calls' = r.calls
    /\ UNCHANGED <<page, type, rows, previous, mergeVars, jsonOutput, pageVars>>

\* The effect of a handler with outcome r on the page
Apply(r) ==
    /\ pc' = IF r.threw THEN "threw" ELSE "done"
    /\ output' = IF r.wrote THEN [output EXCEPT ![type] = r.output] ELSE output
    /\ summary' = IF r.summarized THEN [summary EXCEPT ![type] = r.summary] ELSE summary
    /\ errors' = r.errors
    /\ unique' = r.unique
    /\ calls' = r.calls
    /\ UNCHANGED <<page, type, rows, previous, mergeVars, jsonOutput, pageVars>>

ValidateSchoolData ==
    /\ pc = "ready" /\ page = "refactor" /\ type = "school"
    /\ Apply(SchoolValidation(rows))

ValidateProviderData ==
    /\ pc = "ready" /\ page = "refactor" /\ type = "provider"
    /\ Apply(ProviderValidation(rows))

ValidateData ==
    /\ pc = "ready" /\ page = "legacy"
    /\ Apply(LegacyValidation(rows, type))

Next == ValidateSchoolData \/ ValidateProviderData \/ ValidateData \/ ValidateFile

Spec == Init /\ [][Next]_vars

(***************************************************************************)
(* State machine of merge.html: two files are chosen, then Merge Files is  *)
(* clicked                                                                 *)
(***************************************************************************)

MergeInit ==
    /\ providerFile \in ProviderFiles
    /\ schoolFile \in SchoolFiles
    /\ mergedCSV = NotMerged
    /\ page = "refactor" /\ type = "provider" /\ rows = <<>> /\ pc = "ready"
    /\ output = [ty \in Types |-> Cleared]
    /\ summary = [ty \in Types |-> NoSummary]
    /\ errors = <<>> /\ unique = NoUnique /\ calls = 0 /\ previous = NoReport
    /\ jsonOutput = NoOutput
    /\ selectedFile = [ty \in Types |-> NoSelection] /\ reads = {} /\ modal = "none"
    /\ started = 0

\* parseAndMerge(), its two parse callbacks included
ParseAndMerge ==
    /\ mergedCSV' = IF ~providerFile.chosen \/ ~schoolFile.chosen THEN SelectBoth
                    ELSE MergeOutput(providerFile.data, schoolFile.data)
    /\ UNCHANGED <<providerFile, schoolFile, validatorVars, jsonOutput, pageVars>>

MergeNext == ParseAndMerge

MergeSpec == MergeInit /\ [][MergeNext]_vars

(***************************************************************************)
(* State machine of the summary generators applied to a table with a       *)
(* header row                                                              *)
(***************************************************************************)

SummaryInit ==
    /\ page = "refactor"
    /\ type \in Types
    /\ \E headers \in SummaryHeaders : rows \in SummaryTables(headers)
    /\ pc = "done"
    /\ output = [ty \in Types |-> Cleared]
    /\ summary = [ty \in Types |-> NoSummary]
    /\ errors = <<>> /\ unique = NoUnique /\ calls = 0 /\ previous = NoReport
    /\ providerFile = NoFile /\ schoolFile = NoFile /\ mergedCSV = NotMerged
    /\ jsonOutput = NoOutput
    /\ selectedFile = [ty \in Types |-> NoSelection] /\ reads = {} /\ modal = "none"
    /\ started = 0

\* generateSummary(rows, headers, type)
GenerateSummaryCall ==
    /\ ~summary[type].shown
    /\ summary' = [summary EXCEPT ![type] = GenerateSummary(rows, TrimmedHeaders(rows), type)]
    /\ UNCHANGED <<page, type, rows, pc, output, errors, unique, calls, previous,
                   mergeVars, jsonOutput, pageVars>>

\* generateOutput(rows, headers, type)
GenerateOutputCall ==
    /\ ~jsonOutput.shown
    /\ jsonOutput' = GenerateOutput(rows, TrimmedHeaders(rows), type)
    /\ UNCHANGED <<validatorVars, mergeVars, pageVars>>

SummaryNext == GenerateSummaryCall \/ GenerateOutputCall

SummarySpec == SummaryInit /\ [][SummaryNext]_vars

(***************************************************************************)
(* State machine of a validator page: files are selected, validateFile is  *)
(* invoked, and the reads it starts complete in any order                  *)
(***************************************************************************)

PageInit ==
    /\ page \in Pages
    /\ type = "school" /\ rows = <<>> /\ pc = "ready"
    /\ output = [ty \in Types |-> Cleared]
    /\ summary = [ty \in Types |-> NoSummary]
    /\ errors = <<>> /\ unique = NoUnique /\ calls = 0 /\ previous = NoReport
    /\ providerFile = NoFile /\ schoolFile = NoFile /\ mergedCSV = NotMerged
    /\ jsonOutput = NoOutput
    /\ selectedFile = [ty \in Types |-> NoSelection] /\ reads = {} /\ modal = "none"
    /\ started = 0

\* handleFileSelect(event, type)
HandleFileSelect ==
    \E ty \in Types : \E file \in PageFiles(page, ty) :
        /\ started < MaxStarted
        /\ selectedFile[ty] # file
        /\ selectedFile' = [selectedFile EXCEPT ![ty] = file]
        /\ UNCHANGED <<validatorVars, mergeVars, jsonOutput, reads, modal, started>>

\* validateFile(type) up to the start of the read: the output area, and on
\* the refactored page the summary area, are cleared; without a selected
\* file a modal is shown, otherwise the read of the file selected now starts.
StartValidateFile ==
    \E ty \in Types :
        /\ started < MaxStarted
        /\ started' = started + 1
        /\ output' = [output EXCEPT ![ty] = Cleared]
        /\ summary' = IF page = "refactor" THEN [summary EXCEPT ![ty] = NoSummary] ELSE summary
        /\ IF ~selectedFile[ty].chosen
           THEN modal' = "No File Selected" /\ reads' = reads
           ELSE /\ modal' = modal
                /\ reads' = reads \cup {[id |-> started + 1, type |-> ty,
                                          file |-> selectedFile[ty]]}
        /\ UNCHANGED <<page, type, rows, pc, errors, unique, calls, previous,
                       mergeVars, jsonOutput, selectedFile>>

\* The effect on the page of the ingestion function a read of type ty is
\* handed to, and of the validation with outcome r that it runs
Ingestion(ty, ingested, r) ==
    IF ~ingested.validated
    THEN /\ modal' = ingested.modal
         /\ UNCHANGED <<type, rows, pc, output, summary, errors, unique, calls>>
    ELSE /\ modal' = modal
         /\ type' = ty
         /\ rows' = ingested.rows
         /\ pc' = IF r.threw THEN "threw" ELSE "done"
         /\ output' = IF r.wrote THEN [output EXCEPT ![ty] = r.output] ELSE output
         /\ summary' = IF r.summarized THEN [summary EXCEPT ![ty] = r.summary] ELSE summary
         /\ errors' = r.errors
         /\ unique' = r.unique
         /\ calls' = r.calls

\* reader.onload of one of the reads: the file is dispatched on its type,
\* ingested and validated.
ReaderOnLoad ==
    \E read \in reads :
        /\ reads' = reads \ {read}
        /\ Ingestion(read.type, OnLoad(read.file),
                     Validation(page, read.type, OnLoad(read.file).rows))
        /\ UNCHANGED <<page, previous, mergeVars, jsonOutput, selectedFile, started>>

PageNext == HandleFileSelect \/ StartValidateFile \/ ReaderOnLoad

PageSpec == PageInit /\ [][PageNext]_vars

(***************************************************************************)
(* Properties                                                              *)
(***************************************************************************)

\* The validator has run on the table (it returned or threw).
Finished == pc # "ready"

Expected == ExpectedHeaders(page, type)
ExpectedSet == {Expected[i] : i \in 1..Len(Expected)}

\* The names of the header row, without their surrounding whitespace
HeaderNames == {rows[1][i].text : i \in 1..Len(rows[1])}

\* The header row lacks an expected field name.
LacksField == Len(rows) >= 1 /\ ExpectedSet \ HeaderNames # {}

\* The table has data rows and every expected header.
PassedChecks == Len(rows) >= 2 /\ ExpectedSet \subseteq HeaderNames

NoDuplicateHeaders ==
    \A i, j \in 1..Len(rows[1]) : rows[1][i].text = rows[1][j].text => i = j

\* The cell of a data row in the (last) column named f, undefined when the
\* row is too short or no column has the name
ValueIn(row, f) ==
    LET cols == {i \in 1..Len(rows[1]) : rows[1][i].text = f}
    IN  IF cols = {} THEN Undefined
        ELSE LET col == CHOOSE i \in cols : \A j \in cols : j <= i
             IN  IF col <= Len(row) THEN row[col] ELSE Undefined

\* Every cell of the row is the empty string, null or undefined.
BlankRow(row) == \A i \in 1..Len(row) : row[i] \in {Str(<<>>), Null, Undefined}

\* The position of an expected field in the schema
SchemaPosition(f) == CHOOSE i \in 1..Len(Expected) : Expected[i] = f

\* m lists exactly the expected fields the header row lacks, in schema order.
ListsMissing(m) ==
    /\ {m[k] : k \in 1..Len(m)} = ExpectedSet \ HeaderNames
    /\ \A j, k \in 1..Len(m) : j < k => SchemaPosition(m[j]) < SchemaPosition(m[k])

NothingValidated == calls = 0 /\ errors = <<>> /\ unique = NoUnique

\* C1 as stated: for any table whose header row lacks an expected field, the
\* validator reports exactly the missing fields in schema order and runs no
\* field validator and no aggregate check.
C1_AsClaimed ==
    (Finished /\ LacksField) =>
        /\ output[type].kind = "invalidHeaders"
        /\ ListsMissing(output[type].missing)
        /\ NothingValidated

\* C1 amended: the same for any table that has at least one data row (a
\* table of the header row alone gets the empty-data report before the header
\* check).
C1_MissingHeadersReported ==
    (Finished /\ LacksField /\ Len(rows) >= 2) =>
        /\ pc = "done"
        /\ output[type].kind = "invalidHeaders"
        /\ ListsMissing(output[type].missing)
        /\ NothingValidated

C1_Witness ==
    /\ pc = "done" /\ LacksField /\ Len(rows) >= 2
    /\ Len(output[type].missing) = 2
    /\ rows[2] = BuildRow(type, Kind("allBad", "", 0), rows[1])

\* C2: a table of one row or fewer ends with the empty-data report and
\* nothing else: no row or aggregate error, no success, no summary.
C2_EmptyDataOnly ==
    (Finished /\ Len(rows) <= 1) =>
        /\ pc = "done"
        /\ output[type] = EmptyData
        /\ \A ty \in Types \ {type} : output[ty] = Cleared
        /\ NothingValidated
        /\ \A ty \in Types : ~summary[ty].shown

C2_Witness ==
    /\ pc = "done" /\ Len(rows) = 1 /\ ~LacksField
    /\ output[type].kind = "emptyData"

\* The header row is exactly the schema's fields: each of them once, and
\* no other column.
HeaderExact == Len(rows[1]) = Len(Expected) /\ HeaderNames = ExpectedSet

\* The row passes every field validator of the schema.
RowPasses(row) ==
    \A f \in ExpectedSet :
        IF type = "school" THEN ~SchoolRejects(page, f, ValueIn(row, f))
        ELSE /\ f = "session_topic" => ~TopicThrows(ValueIn(row, f))
             /\ ~ProviderRejects(f, ValueIn(row, f))

AllRowsPass == \A r \in 2..Len(rows) : RowPasses(rows[r])

\* The distinct cells of column f over the data rows that are not blank
DistinctValues(f) == {ValueIn(rows[r], f) : r \in {q \in 2..Len(rows) : ~BlankRow(rows[q])}}

WithinCardinalityLimits ==
    type = "school" =>
        /\ Cardinality(DistinctValues("ethnicity")) <= 10
        /\ Cardinality(DistinctValues("performance_level_prior_year")) <= 6
        /\ Cardinality(DistinctValues("performance_level_current_year")) <= 6

\* C3 as stated: a table with exactly the schema's header and only rows that
\* pass every field validator gets an empty error list and the success report.
C3_AsClaimed ==
    (Finished /\ Len(rows) >= 2 /\ HeaderExact /\ AllRowsPass) =>
        errors = <<>> /\ output[type] = Success

\* C3 amended: the same provided that, for the student schema, the
\* ethnicity column has at most 10 distinct values and each performance level
\* column at most 6.
C3_ValidTableSucceeds ==
    (Finished /\ Len(rows) >= 2 /\ HeaderExact /\ AllRowsPass /\ WithinCardinalityLimits) =>
        pc = "done" /\ errors = <<>> /\ output[type] = Success

C3_Witness ==
    /\ pc = "done" /\ Len(rows) >= 4 /\ HeaderExact /\ AllRowsPass /\ WithinCardinalityLimits
    /\ output[type] = Success
    /\ Cardinality(DistinctValues("performance_level_prior_year")) = 6

\* The table of the student scenario: the 22 field names of the student
\* schema, ending with disability, economic_disadvantage, and its one row.
C4Table ==
    <<Exact(SchoolHeadersRefactor),
      <<Str(<<"1", "2", "3", "4", "5", "6", "7", "8", "9", "0">>),
        Str(<<"1", "2", "3", "4", "5", "6", "7">>),
        Str(<<"E", "x", "a", "m", "p", "l", "e", " ", "D", "i", "s", "t">>),
        Str(<<"1", "2", "3", "4", "5", "6">>),
        Str(<<"E", "x", "a", "m", "p", "l", "e", " ", "S", "c", "h", "o", "o", "l">>),
        Str(<<"8">>), Str(<<"M", "a", "l", "e">>),
        Str(<<"H", "i", "s", "p", "a", "n", "i", "c">>),
        Str(<<"T", "R", "U", "E">>), Str(<<"F", "A", "L", "S", "E">>),
        Str(<<"F", "A", "L", "S", "E">>), Str(<<"F", "A", "L", "S", "E">>),
        Str(<<"7", "0", "0">>), Str(<<"7", "1", "0">>), Str(<<"7", "2", "0">>),
        Str(<<"7", "0", "0">>), Str(<<"7", "1", "0">>), Str(<<"7", "2", "0">>),
        Str(<<"p", "r", "o", "f", "i", "c", "i", "e", "n", "t">>),
        Str(<<"p", "r", "o", "f", "i", "c", "i", "e", "n", "t">>),
        Str(<<"F", "A", "L", "S", "E">>), Str(<<"T", "R", "U", "E">>)>>>>

\* C4: under the strict policy (data_validator.html) the student scenario
\* table is reported valid.
C4_AsClaimed ==
    (Finished /\ page = "legacy" /\ type = "school" /\ rows = C4Table) =>
        output["school"] = Success

\* C5: a data row whose cells are all the empty string, null or undefined is
\* skipped: no row error carries its number, and its cells enter no
\* unique-value set.
C5_BlankRowsSkipped ==
    (Finished /\ PassedChecks) =>
        /\ \A k \in 1..Len(errors) :
                errors[k].kind = "row" =>
                    errors[k].row \in 2..Len(rows) /\ ~BlankRow(rows[errors[k].row])
        /\ \A f \in TrackedFields : unique[f] \subseteq DistinctValues(f)

C5_Witness ==
    /\ pc = "done" /\ PassedChecks /\ Len(rows) = 4
    /\ BlankRow(rows[2]) /\ ~BlankRow(rows[3]) /\ BlankRow(rows[4])
    /\ errors # <<>>
    /\ \A k \in 1..Len(errors) : errors[k].row = 3

\* Column permutations tried on a table of n columns: the first MaxRotate
\* rotations, the reversal, and the exchange of the first and last column.
MaxRotate == 2
Rotate(n, k) == [i \in 1..n |-> ((i - 1 + k) % n) + 1]
Reverse(n) == [i \in 1..n |-> n + 1 - i]
SwapEnds(n) == [i \in 1..n |-> IF i = 1 THEN n ELSE IF i = n THEN 1 ELSE i]
ColumnOrders(n) == {Rotate(n, k) : k \in 1..MaxRotate} \cup {Reverse(n), SwapEnds(n)}

\* Table t with the same permutation applied to the header row and to every
\* data row (a short row counts as ending in undefined cells).
Permuted(t, perm) ==
    [r \in 1..Len(t) |->
        IF r = 1 THEN [i \in 1..Len(t[1]) |-> t[1][perm[i]]]
        ELSE [i \in 1..Len(t[1]) |->
                  IF perm[i] <= Len(t[r]) THEN t[r][perm[i]] ELSE Undefined]]

\* Validating table t gives the report and the error list of this run.
SameResult(t) ==
    LET other == Validation(page, type, t)
    IN  /\ other.errors = errors
        /\ other.threw = (pc = "threw")
        /\ (IF other.wrote THEN other.output ELSE Cleared) = output[type]

\* C6: cells are mapped to field names by the order of the file's header
\* row: permuting the header row and every data row alike (no duplicate
\* header names, every required header present) gives exactly the same
\* list of errors.
C6_ColumnOrderIrrelevant ==
    (Finished /\ PassedChecks /\ NoDuplicateHeaders) =>
        \A perm \in ColumnOrders(Len(rows[1])) : SameResult(Permuted(rows, perm))

C6_Witness ==
    /\ pc = "done" /\ PassedChecks /\ NoDuplicateHeaders
    /\ Len(errors) >= 3
    /\ Permuted(rows, Reverse(Len(rows[1])))[1] = Exact(Expected)
    /\ rows[1] # Exact(Expected)

\* seq with x put in at position pos
InsertAt(seq, pos, x) == SubSeq(seq, 1, pos - 1) \o <<x>> \o SubSeq(seq, pos, Len(seq))

\* Table t with one more column named name at position pos, holding v in
\* every data row except the blank ones, which get the empty string.
WithColumn(t, pos, name, v) ==
    [r \in 1..Len(t) |->
        IF r = 1 THEN InsertAt(t[1], pos, [lead |-> 0, text |-> name, trail |-> 0])
        ELSE InsertAt([i \in 1..Len(t[1]) |-> IF i <= Len(t[r]) THEN t[r][i] ELSE Undefined],
                      pos, IF BlankRow(t[r]) THEN Str(<<>>) ELSE v)]

ExtraValues == {Str(<<"n", "/", "a">>), Null}

\* C7: columns whose header is not a schema field are ignored: adding one
\* to a table that has every required header (its cells not making a blank
\* row non-blank) changes neither the header check result nor the errors.
C7_ExtraColumnsIgnored ==
    (Finished /\ Len(rows) >= 1 /\ ExpectedSet \subseteq HeaderNames) =>
        \A pos \in {1, Len(rows[1]) + 1} : \A v \in ExtraValues :
            SameResult(WithColumn(rows, pos, "comments", v))

C7_Witness ==
    /\ pc = "done" /\ Len(rows) = 3 /\ ExpectedSet \subseteq HeaderNames
    /\ BlankRow(rows[2]) /\ ~BlankRow(rows[3])
    /\ output[type].kind = "errors"
    /\ Len(rows[1]) = Len(Expected)

\* A data row has fewer cells than the header row.
HasShortRow == \E r \in 2..Len(rows) : Len(rows[r]) < Len(rows[1])

\* C8: a data row shorter than the header row is tolerated in a student or a
\* session table: the validation runs to completion and produces a report.
C8_AsClaimed ==
    (Finished /\ Len(rows) >= 2 /\ HasShortRow) =>
        pc = "done" /\ output[type].kind \in {"invalidHeaders", "errors", "success"}

\* The aggregate errors of the run for field f
AggregateErrorsFor(f) ==
    {k \in 1..Len(errors) : errors[k].kind = "aggregate" /\ errors[k].field = f}

\* Field f gets an aggregate error, naming the field and its count of
\* distinct values, exactly when that count exceeds limit.
AggregateIff(f, limit) ==
    LET n == Cardinality(DistinctValues(f))
    IN  /\ Cardinality(AggregateErrorsFor(f)) = (IF n > limit THEN 1 ELSE 0)
        /\ \A k \in AggregateErrorsFor(f) :
               /\ errors[k].count = n
               /\ output[type].kind = "errors" /\ output[type].errors[k] = errors[k]

\* C9: on a student table the validator emits an aggregate error for
\* ethnicity exactly when the column has more than 10 distinct values over
\* the rows not skipped, and for each performance level column exactly when
\* it has more than 6; the error names the field and the count.
C9_CardinalityLimits ==
    (Finished /\ type = "school" /\ PassedChecks) =>
        /\ AggregateIff("ethnicity", 10)
        /\ AggregateIff("performance_level_prior_year", 6)
        /\ AggregateIff("performance_level_current_year", 6)
        /\ \A k \in 1..Len(errors) : errors[k].kind = "aggregate" => errors[k].field \in TrackedFields

C9_Witness ==
    /\ pc = "done" /\ type = "school" /\ PassedChecks
    /\ Cardinality(DistinctValues("performance_level_prior_year")) = 7
    /\ Cardinality(DistinctValues("ethnicity")) = 1
    /\ \E r \in 2..Len(rows) : BlankRow(rows[r])
    /\ Cardinality(AggregateErrorsFor("performance_level_prior_year")) = 1
    /\ AggregateErrorsFor("ethnicity") = {}

\* C10: a validation pass that gets past the empty-data check and the
\* header check reports success exactly when its list of row and aggregate
\* errors is empty, and otherwise reports Errors Found with every error.
C10_AsClaimed ==
    (Finished /\ PassedChecks) =>
        /\ (output[type] = Success) <=> (errors = <<>>)
        /\ errors # <<>> => output[type] = ErrorsFound(errors)

\* What the validation that has just ended left
CurrentReport == ValidationReport(output[type], errors, unique, pc = "threw")

\* C11: validating the same table twice in a row gives identical reports: the
\* second validation leaves the same output, the same error list and the
\* same unique-value sets as the first, nothing of the first being carried
\* over.
C11_Idempotent ==
    (Finished /\ previous # NoReport) => CurrentReport = previous

C11_Witness ==
    /\ pc = "done" /\ previous # NoReport
    /\ type = "school" /\ output[type].kind = "errors"
    /\ \E k \in 1..Len(errors) : errors[k].kind = "aggregate"
    /\ Cardinality(unique["ethnicity"]) = 11
    /\ previous.errors = errors /\ previous.unique = unique

\* The days of month m of year y in the Gregorian calendar, 0 when m is no
\* month
CalendarDays(y, m) ==
    IF m \in {1, 3, 5, 7, 8, 10, 12} THEN 31
    ELSE IF m \in {4, 6, 9, 11} THEN 30
    ELSE IF m # 2 THEN 0
    ELSE IF (y % 4 = 0 /\ y % 100 # 0) \/ y % 400 = 0 THEN 29 ELSE 28

\* The number two or four digit characters write
NumberOf(cs) ==
    IF Len(cs) = 2 THEN 10 * DigitValue(cs[1]) + DigitValue(cs[2])
    ELSE 1000 * DigitValue(cs[1]) + 100 * DigitValue(cs[2])
         + 10 * DigitValue(cs[3]) + DigitValue(cs[4])

\* The value reads YYYY-MM-DD and names a day of the calendar.
IsCalendarDate(v) ==
    LET cs == v.s
    IN  /\ Len(cs) = 10
        /\ cs[5] = "-" /\ cs[8] = "-"
        /\ \A i \in {1, 2, 3, 4, 6, 7, 9, 10} : cs[i] \in Digits
        /\ LET y == NumberOf(SubSeq(cs, 1, 4))
               m == NumberOf(SubSeq(cs, 6, 7))
               d == NumberOf(SubSeq(cs, 9, 10))
           IN  1 <= d /\ d <= CalendarDays(y, m)

\* The row errors of the run for field f of the row at position r
RowErrorsFor(r, f) ==
    {k \in 1..Len(errors) : errors[k].kind = "row" /\ errors[k].row = r /\ errors[k].field = f}

\* The data rows a run that returned has validated
ValidatedRows == {r \in 2..Len(rows) : ~BlankRow(rows[r])}

\* C12 as stated: the session_date check accepts a value exactly when it
\* reads YYYY-MM-DD and names a real calendar date, and every rejected value
\* yields exactly one row error for session_date.
C12_AsClaimed ==
    (pc = "done" /\ type = "provider" /\ PassedChecks) =>
        \A r \in ValidatedRows :
            Cardinality(RowErrorsFor(r, "session_date"))
                = (IF IsCalendarDate(ValueIn(rows[r], "session_date")) THEN 0 ELSE 1)

\* What C13 says of a session cell: the value of field f is acceptable.
SessionCellAcceptable(f, v) ==
    CASE f = "student_id" -> v.s # <<>> /\ \A i \in 1..Len(v.s) : v.s[i] \in Digits
      [] f = "session_topic" -> ToLowerCase(v.s) \in {<<"m", "a", "t", "h">>, <<"e", "l", "a">>}
      [] f = "session_duration" -> ~ParseFloat(v).nan /\ ParseFloat(v).positive
      [] f = "tutor_id" -> v \notin {Null, Undefined} /\ TrimChars(v.s) # <<>>

\* C13 as stated: for every non-blank session row and every cell value
\* ingestion can supply, no error is reported for student_id exactly when it
\* is one or more digits, for session_topic exactly when it is math or ela
\* whatever the case, for session_duration exactly when it parses as a number
\* above 0, and for tutor_id exactly when it is non-empty after trimming.
C13_AsClaimed ==
    (Finished /\ type = "provider" /\ PassedChecks) =>
        \A r \in 2..Len(rows) :
            ~BlankRow(rows[r]) =>
                \A f \in {"student_id", "session_topic", "session_duration", "tutor_id"} :
                    (RowErrorsFor(r, f) = {}) <=> SessionCellAcceptable(f, ValueIn(rows[r], f))

\* The value is an integer from lo to hi: a number or a text that is decimal
\* digits, with a minus sign before them or not.
IsIntegerIn(v, lo, hi) ==
    LET cs == v.s
        ds == IF cs # <<>> /\ Head(cs) = "-" THEN Tail(cs) ELSE cs
        n == IF cs # <<>> /\ Head(cs) = "-" THEN 0 - DigitsValue(ds) ELSE DigitsValue(ds)
    IN  /\ v.t \in {"string", "number"}
        /\ ds # <<>>
        /\ \A i \in 1..Len(ds) : ds[i] \in Digits
        /\ lo <= n /\ n <= hi

\* C14 as stated: the current_grade_level validator accepts a cell exactly
\* when it is an integer from 0 to 12; every other value gets a row error
\* for current_grade_level.
C14_AsClaimed ==
    (Finished /\ type = "school" /\ PassedChecks) =>
        \A r \in ValidatedRows :
            (RowErrorsFor(r, "current_grade_level") = {})
                <=> IsIntegerIn(ValueIn(rows[r], "current_grade_level"), 0, 12)

\* C15 as stated: under the strict policy each of the six state score
\* fields is accepted exactly when its value is an integer from 650 to 800;
\* any other value gets a row error naming the field.
C15_AsClaimed ==
    (Finished /\ page = "legacy" /\ type = "school" /\ PassedChecks) =>
        \A r \in ValidatedRows : \A f \in ScoreFields :
            (RowErrorsFor(r, f) = {}) <=> IsIntegerIn(ValueIn(rows[r], f), 650, 800)

\* The fields C16 names
ExactFlagFields ==
    {"ell", "iep", "gifted_flag", "homeless_flag", "disability", "economic_disadvantage"}

\* C16 as stated: under the strict policy gender is accepted exactly when
\* the cell is "Male" or "Female", and each of ell, iep, gifted_flag,
\* homeless_flag, disability and economic_disadvantage exactly when the cell
\* is "TRUE" or "FALSE"; any other value gets a row error for the field.
C16_AsClaimed ==
    (/\ Finished /\ page = "legacy" /\ type = "school" /\ Len(rows) >= 2
     /\ ExactFlagFields \cup {"gender"} \subseteq HeaderNames) =>
        \A r \in ValidatedRows :
            /\ (RowErrorsFor(r, "gender") = {})
                  <=> ValueIn(rows[r], "gender") \in {Str(<<"M", "a", "l", "e">>),
                                                      Str(<<"F", "e", "m", "a", "l", "e">>)}
            /\ \A f \in ExactFlagFields :
                  (RowErrorsFor(r, f) = {})
                      <=> ValueIn(rows[r], f) \in {Str(<<"T", "R", "U", "E">>),
                                                   Str(<<"F", "A", "L", "S", "E">>)}

\* parseAndMerge has written the merged table.
MergeDone == mergedCSV.kind = "csv"

FieldSet(file) == {file.fields[j] : j \in 1..Len(file.fields)}

\* The right rows with the key of left row i, by position
MatchesOf(i) ==
    {j \in 1..Len(schoolFile.data) :
        KeyOf(schoolFile.data[j]) = KeyOf(providerFile.data[i])}

LastMatchOf(i) == CHOOSE j \in MatchesOf(i) : \A k \in MatchesOf(i) : k <= j

\* The fields the join gives left row i, and their values: the right row's
\* where it has the field, the left row's elsewhere
JoinedFields(i) ==
    FieldSet(providerFile) \cup (IF MatchesOf(i) = {} THEN {} ELSE FieldSet(schoolFile))

JoinedValue(i, f) ==
    IF MatchesOf(i) # {} /\ f \in FieldSet(schoolFile)
    THEN schoolFile.data[LastMatchOf(i)].val[f]
    ELSE providerFile.data[i].val[f]

\* Output row i holds value v in a column named f.
OutputHas(i, f, v) ==
    \E j \in 1..Len(mergedCSV.fields) : mergedCSV.fields[j] = f /\ mergedCSV.rows[i][j] = v

\* C17 as stated: the merge is a left outer join on the key: one output row
\* per left row, in left order; each is the left row's fields overlaid by
\* those of the right row with the same key (the right value winning on a
\* shared name), or the left row's fields alone when no right row matches.
C17_AsClaimed ==
    (MergeDone /\ "student_id" \in FieldSet(providerFile) \cap FieldSet(schoolFile)) =>
        /\ Len(mergedCSV.rows) = Len(providerFile.data)
        /\ \A i \in 1..Len(mergedCSV.rows) :
              /\ \A f \in JoinedFields(i) : OutputHas(i, f, JoinedValue(i, f))
              /\ \A j \in 1..Len(mergedCSV.fields) :
                    mergedCSV.fields[j] \notin JoinedFields(i) => mergedCSV.rows[i][j] = EmptyText

\* C18 as stated: for any two input tables the header of the merged output
\* is all left fields in left order, then every field only the right table
\* has, whether or not the first left row has a matching right row.
C18_AsClaimed ==
    MergeDone =>
        mergedCSV.fields =
            providerFile.fields
                \o SelectSeq(schoolFile.fields, LAMBDA f : f \notin FieldSet(providerFile))

\* The right rows that no later right row shares the key with
LastOfEachKey(data) ==
    SelectSeq(data, LAMBDA r :
        \A j \in 1..Len(data) :
            KeyOf(data[j]) = KeyOf(r) => data[j].val[data[j].keys[1]].row <= r.val[r.keys[1]].row)

\* C19: when several right rows share a key value the last of them in table
\* order is the one every left row with that key is overlaid with: the
\* output cells in the right table's columns are that row's, and the earlier
\* rows of the key could as well not be there.
C19_LastRightRowWins ==
    MergeDone =>
        /\ \A i \in 1..Len(mergedCSV.rows) :
              MatchesOf(i) # {} =>
                  \A j \in 1..Len(mergedCSV.fields) :
                      mergedCSV.fields[j] \in FieldSet(schoolFile) =>
                          mergedCSV.rows[i][j]
                              = schoolFile.data[LastMatchOf(i)].val[mergedCSV.fields[j]]
        /\ mergedCSV = MergeOutput(providerFile.data, LastOfEachKey(schoolFile.data))

C19_Witness ==
    /\ MergeDone
    /\ Len(schoolFile.data) = 2 /\ Len(providerFile.data) = 2
    /\ KeyOf(schoolFile.data[1]) = KeyOf(schoolFile.data[2])
    /\ MatchesOf(1) = {1, 2} /\ MatchesOf(2) = {1, 2}
    /\ "student_id" \in FieldSet(providerFile) \cap FieldSet(schoolFile)
    /\ OutputHas(1, "school_name", Cell("school", 2, "school_name"))
    /\ OutputHas(2, "school_name", Cell("school", 2, "school_name"))

\* Both summary generators have reported on the table.
SummaryDone == summary[type].shown /\ jsonOutput.shown

\* The data rows whose cell in column col is not null, not undefined and not
\* empty after string conversion and trim
NonEmptyRows(col) ==
    {r \in 2..Len(rows) :
        LET cell == CellAt(rows[r], col)
        IN  cell.t \notin {"null", "undefined"} /\ TrimChars(JsString(cell)) # <<>>}

\* A reported percent that is a number between 0 and 100
InPercentRange(percent) ==
    ~percent.nan /\ 0 <= percent.hundredths /\ percent.hundredths <= 10000

\* C20: in the summary the number of data rows is the table's row count
\* minus 1; for every header field the non-empty count is the number of data
\* rows whose cell in a column of that name is not null, not undefined and
\* not empty after string conversion and trim, so it lies between 0 and the
\* number of data rows; and the percent reported for every column lies in
\* [0,100].
C20_AsClaimed ==
    SummaryDone =>
        /\ summary[type].numberOfRows = Len(rows) - 1
        /\ jsonOutput.total_rows = Len(rows) - 1
        /\ \A i \in 1..Len(rows[1]) :
              LET h == Trim(rows[1][i])
                  entry == jsonOutput.column_completion[h]
              IN  /\ \E j \in 1..Len(rows[1]) :
                        /\ Trim(rows[1][j]) = h
                        /\ entry.non_empty_cells = Cardinality(NonEmptyRows(j))
                  /\ 0 <= entry.non_empty_cells
                  /\ entry.non_empty_cells <= Len(rows) - 1
                  /\ InPercentRange(entry.percent_complete)
                  /\ InPercentRange(summary[type].percentNonMissingPerColumn[h])

\* C21: on a table with zero data rows (the header row only) every column's
\* percent is reported as 0, in both summaries, and no NaN appears in them.
C21_AsClaimed ==
    (SummaryDone /\ Len(rows) = 1) =>
        \A i \in 1..Len(rows[1]) :
            LET h == Trim(rows[1][i])
            IN  /\ jsonOutput.column_completion[h].percent_complete
                      = [nan |-> FALSE, hundredths |-> 0]
                /\ summary[type].percentNonMissingPerColumn[h]
                      = [nan |-> FALSE, hundredths |-> 0]

\* The first column named district_id, 0 when there is none
DistrictColumn ==
    LET cols == {i \in 1..Len(rows[1]) : Trim(rows[1][i]) = H("district_id")}
    IN  IF cols = {} THEN 0 ELSE CHOOSE i \in cols : \A j \in cols : i <= j

\* The district value of data row r as the summary names it
DistrictOf(r) == JsString(CellAt(rows[r], DistrictColumn))

Completes(read) == read \in reads /\ reads' = reads \ {read}

IsJsonFile(file) == ToLowerCase(LastPart(file.name)) = <<"j", "s", "o", "n">>

\* The table of the records data under the header row keys: every record
\* projected onto keys, undefined where it lacks the key
Projection(data, keys) ==
    <<[j \in 1..Len(keys) |-> H(keys[j])]>>
    \o [i \in 1..Len(data) |->
            [j \in 1..Len(keys) |->
                IF \E n \in 1..Len(data[i].keys) : data[i].keys[n] = keys[j]
                THEN data[i].val[keys[j]] ELSE Undefined]]

\* C23: structured-record ingestion takes the keys of the first record, in
\* insertion order, as the header row and projects every record onto that
\* key order, with undefined for a key the record lacks and without the keys
\* only later records have; an array of zero records is rejected with the
\* empty-input error and nothing is validated.
C23_AsClaimed ==
    [][\A read \in reads :
          (Completes(read) /\ IsJsonFile(read.file)) =>
              IF Len(read.file.records) = 0
              THEN /\ modal' = "Empty File"
                   /\ UNCHANGED <<rows, output, summary, errors, unique, calls>>
              ELSE rows' = Projection(read.file.records, read.file.records[1].keys)]_vars

SupportedTypes == {<<"c", "s", "v">>, <<"x", "l", "s", "x">>, <<"j", "s", "o", "n">>}

\* The extension of a file name, in lower case: what follows its last '.',
\* nothing when the name has no '.'
Extension(name) ==
    IF \E i \in 1..Len(name) : name[i] = "." THEN ToLowerCase(LastPart(name)) ELSE <<>>

\* The completed read produced nothing: no table was ingested or validated,
\* the output and summary areas are as they were, and the unsupported-format
\* modal is shown.
RejectedAsUnsupported ==
    /\ modal' = "Unsupported File Type"
    /\ UNCHANGED <<type, rows, pc, output, summary, errors, unique, calls, jsonOutput>>

\* C24 as stated: a file whose extension, compared case-insensitively, is
\* not csv, xlsx or json is rejected as an unsupported format when its read
\* completes: nothing is ingested or validated and no error list, success
\* indicator or summary is produced for it.
C24_AsClaimed ==
    [][\A read \in reads :
          (Completes(read) /\ Extension(read.file.name) \notin SupportedTypes)
              => RejectedAsUnsupported]_vars

\* C24, amended: the same for a file whose name's part after the last '.',
\* the whole name when it has no '.', is not csv, xlsx or json in any case.
C24_UnsupportedRejected ==
    [][\A read \in reads :
          (Completes(read) /\ ToLowerCase(LastPart(read.file.name)) \notin SupportedTypes)
              => RejectedAsUnsupported]_vars

C24_Witness ==
    /\ modal = "Unsupported File Type"
    /\ reads = {} /\ started = 2
    /\ selectedFile["school"].name = <<"n", ".", "t", "x", "t">>
    /\ output["school"] = Cleared /\ ~summary["school"].shown
    /\ output["provider"].kind = "success"

\* The errors of list are in report order: a row error comes before every
\* error of a later row, before every error of the same row whose field the
\* schema declares later, and before every aggregate error.
InReportOrder(list) ==
    \A i, j \in 1..Len(list) :
        i < j =>
            /\ list[i].kind = "aggregate" => list[j].kind = "aggregate"
            /\ (list[i].kind = "row" /\ list[j].kind = "row") =>
                  \/ list[i].row < list[j].row
                  \/ /\ list[i].row = list[j].row
                     /\ SchemaPosition(list[i].field) < SchemaPosition(list[j].field)

\* C25: in every report the row errors are in ascending row number, within
\* one row in the schema's field declaration order, and every aggregate
\* (cardinality) error comes after all row errors.
C25_ReportOrder ==
    (Finished /\ output[type].kind = "errors") => InReportOrder(output[type].errors)

C25_Witness ==
    /\ Finished /\ output[type].kind = "errors"
    /\ LET list == output[type].errors
       IN  /\ Len(list) > 3
           /\ list[1].kind = "row" /\ list[2].kind = "row" /\ list[1].row = list[2].row
           /\ \E k \in 3..Len(list) : list[k].kind = "row" /\ list[2].row < list[k].row
           /\ list[Len(list)].kind = "aggregate"

\* C26: every row error of the data row at position i of the table, the
\* header being row 1, carries the row number i, so the first data row is
\* Row 2; skipped blank rows keep their number: the error's row is a data
\* row that is not blank and the error's value is that row's cell in the
\* error's field.
C26_RowNumbers ==
    Finished =>
        \A k \in 1..Len(errors) :
            errors[k].kind = "row" =>
                /\ errors[k].row \in 2..Len(rows)
                /\ ~BlankRow(rows[errors[k].row])
                /\ errors[k].value = ValueIn(rows[errors[k].row], errors[k].field)

C26_Witness ==
    /\ Finished /\ Len(rows) = 4 /\ Len(errors) > 0
    /\ ~BlankRow(rows[2]) /\ BlankRow(rows[3]) /\ ~BlankRow(rows[4])
    /\ errors[1].row = 2 /\ errors[Len(errors)].row = 4
    /\ \A k \in 1..Len(errors) : errors[k].kind = "row" /\ errors[k].row # 3

\* C27: for each file type, whatever validateFile invocations and read
\* completions have happened, a summary is displayed for the type only while
\* its output area shows the success indicator.
C27_AsClaimed ==
    \A ty \in Types : summary[ty].shown => output[ty].kind = "success"

\* C28: in the refactored student validator the six state score validators
\* follow one rule: of two score cells of a row that hold the same value,
\* both are accepted or both are rejected.
C28_AsClaimed ==
    (pc = "done" /\ page = "refactor" /\ type = "school" /\ PassedChecks) =>
        \A r \in ValidatedRows : \A f, g \in ScoreFields :
            ValueIn(rows[r], f) = ValueIn(rows[r], g) =>
                (RowErrorsFor(r, f) = {} <=> RowErrorsFor(r, g) = {})

\* The sum of the counts of the keys in keys
RECURSIVE SumOver(_, _)
SumOver(counts, keys) ==
    IF keys = {} THEN 0
    ELSE LET k == CHOOSE x \in keys : TRUE
         IN  counts[k] + SumOver(counts, keys \ {k})

\* C29: in every student summary the district counts sum to the number of
\* data rows whose district_id cell is non-blank, the completeness percent
\* of the district_id column is the percent of that same count, and the sum
\* never exceeds numberOfRows.
C29_AsClaimed ==
    (summary[type].shown /\ type = "school" /\ summary[type].hasDistrictCounts) =>
        LET counts == summary[type].districtCounts
            total == SumOver(counts, DOMAIN counts)
        IN  /\ total = Cardinality(NonEmptyRows(DistrictColumn))
            /\ total <= summary[type].numberOfRows
            /\ summary[type].percentNonMissingPerColumn[H("district_id")]
                  = PercentNonMissing(total, summary[type].numberOfRows)

\* The data rows the validation engine skips as blank
BlankRows == {r \in 2..Len(rows) : BlankRow(rows[r])}

\* C30: the data rows the engine skips as blank are counted by the summary:
\* numberOfRows is the number of rows minus 1, blank rows included, and a
\* blank row is an empty cell in every column, so after a successful
\* validation of a table with k blank rows among its n data rows no column's
\* completeness is above (n - k) / n, as a percent rounded to two decimals.
C30_BlankRowsCounted ==
    (Finished /\ summary[type].shown) =>
        LET n == Len(rows) - 1
            k == Cardinality(BlankRows)
        IN  /\ output[type].kind = "success"
            /\ summary[type].numberOfRows = n
            /\ \A i \in 1..Len(rows[1]) :
                  LET percent == summary[type].percentNonMissingPerColumn[Trim(rows[1][i])]
                  IN  /\ ~percent.nan
                      /\ percent.hundredths * n <= (n - k) * 10000 + (n \div 2)
                      /\ \A r \in BlankRows : r \notin NonEmptyRows(i)

C30_Witness ==
    /\ Finished /\ summary[type].shown
    /\ Len(rows) = 4 /\ Cardinality(BlankRows) = 1
    /\ \A i \in 1..Len(rows[1]) :
          summary[type].percentNonMissingPerColumn[Trim(rows[1][i])].hundredths = 6667

=============================================================================
